---- MODULE Spec2Model ----
(***************************************************************************)
(* Deployment reconciliation engine of timeax/zipper.                      *)
(*                                                                         *)
(* Relative paths are sequences of one-character strings, so that          *)
(* String.startsWith, path.posix.dirname and path.posix.join are computed  *)
(* character by character as the code computes them.                       *)
(*   stale.txt -> <<"s">>, robots.txt -> <<"r">>,                          *)
(*   uploads/x.jpg -> <<"u","/","x">>, docs/f -> <<"d","/","f">>            *)
(*                                                                         *)
(* Spec      : the FTP and SFTP transports (deploy and restore).           *)
(* SpecShell : the shell transport, uploadViaSSH running upload.sh.        *)
(* SpecPool  : the flows of Spec under every kind of configured            *)
(*             concurrency value.                                          *)
(* SpecGate  : the flows of Spec under every confirmation mode and reply.  *)
(* SpecRestore : the shell restore, restoreViaSSH running restore.sh.      *)
(* SpecWebroot : the flows of Spec preceded by the webroot resolution.     *)
(* SpecParity  : the shell deploy over releases and webroots with a        *)
(*               dotfile, compared with the SFTP outcome.                  *)
(* SpecPick    : the choice of the backup to restore, shell and SFTP.      *)
(* SpecMatch   : the flows of Spec under unusual preserve rule lists.      *)
(* SpecSpawn   : spawnWithTimeout, the script as a child process.          *)
(* SpecPoolFair : SpecPool where every upload in flight ends.              *)
(***************************************************************************)
EXTENDS Integers, Sequences, FiniteSets, TLC

\* ------------------------------------------------------------------------
\* Bounds of the model
\* ------------------------------------------------------------------------
MaxLocal == 2      \* at most this many files in the local release tree
MaxRemote == 2     \* at most this many files in the initial remote webroot
MaxRuns == 2       \* successive runs against the same remote
MaxFaults == 1     \* environment faults (failed remote calls) per behaviour
MaxElapsed == 3     \* milliseconds a script is followed under spawnWithTimeout

\* ------------------------------------------------------------------------
\* Strings as character sequences
\* ------------------------------------------------------------------------
SLASH == "/"
DOT == "."
BACKSLASH == "\\"

\* UTF-16 code unit order of the characters used (Array.prototype.sort default)
CharCode(c) ==
  CASE c = "." -> 46
    [] c = "/" -> 47
    [] c = "2" -> 50
    [] c = "\\" -> 92
    [] c = "a" -> 97
    [] c = "d" -> 100
    [] c = "f" -> 102
    [] c = "h" -> 104
    [] c = "r" -> 114
    [] c = "s" -> 115
    [] c = "u" -> 117
    [] c = "x" -> 120
    [] c = "y" -> 121
    [] OTHER -> 127

\* String.prototype.startsWith
StartsWith(s, p) ==
  /\ Len(p) <= Len(s)
  /\ SubSeq(s, 1, Len(p)) = p

\* String.prototype.endsWith("/")
EndsWithSlash(s) == Len(s) > 0 /\ s[Len(s)] = SLASH

\* s.replaceAll("\\", "/")
ReplaceBackslashes(s) == [i \in 1..Len(s) |-> IF s[i] = BACKSLASH THEN SLASH ELSE s[i]]

\* s.replace(/\/+$/, "")
RECURSIVE StripTrailingSlashes(_)
StripTrailingSlashes(s) ==
  IF EndsWithSlash(s) THEN StripTrailingSlashes(SubSeq(s, 1, Len(s) - 1)) ELSE s

\* s.replace(/^\.?\//, "")
StripLeadingDotSlash(s) ==
  IF Len(s) >= 2 /\ s[1] = DOT /\ s[2] = SLASH THEN SubSeq(s, 3, Len(s))
  ELSE IF Len(s) >= 1 /\ s[1] = SLASH THEN SubSeq(s, 2, Len(s))
  ELSE s

\* const normalize = (p) => p.replaceAll("\\", "/").replace(/^\.?\//, "")
normalize(p) == StripLeadingDotSlash(ReplaceBackslashes(p))

\* the string order used by Array.prototype.sort() without comparator
RECURSIVE LexLess(_, _)
LexLess(s, t) ==
  IF Len(t) = 0 THEN FALSE
  ELSE IF Len(s) = 0 THEN TRUE
  ELSE IF s[1] # t[1] THEN CharCode(s[1]) < CharCode(t[1])
  ELSE LexLess(Tail(s), Tail(t))

\* the elements of a finite set of strings in sort() order
RECURSIVE SortedSeq(_)
SortedSeq(S) ==
  IF S = {} THEN <<>>
  ELSE LET m == CHOOSE x \in S : \A y \in S \ {x} : LexLess(x, y)
       IN <<m>> \o SortedSeq(S \ {m})

SeqToSet(s) == {s[i] : i \in 1..Len(s)}

\* positions of "/" in a path
SlashPositions(p) == {i \in 1..Len(p) : p[i] = SLASH}

\* path.posix.dirname(rel) for a relative path without "." or ".." segments;
\* the result "." is written <<".">>
dirname(p) ==
  IF SlashPositions(p) = {} THEN <<DOT>>
  ELSE LET k == CHOOSE i \in SlashPositions(p) : \A j \in SlashPositions(p) : j <= i
       IN SubSeq(p, 1, k - 1)

\* path.posix.join(base, rel) for normalized operands; <<>> is the webroot
joinRemote(base, rel) ==
  IF base = <<>> THEN rel
  ELSE IF rel = <<>> THEN base
  ELSE base \o <<SLASH>> \o rel

\* the directories that contain path p, nearest the webroot first excluded
Ancestors(p) == {SubSeq(p, 1, k - 1) : k \in SlashPositions(p)} \ {<<>>}

\* ------------------------------------------------------------------------
\* PreserveMatcher
\* ------------------------------------------------------------------------
\* variant: the rule is used as written, trailing slashes and all
isPreserveMatch_AsWritten(rel, preserve) ==
  IF EndsWithSlash(preserve) THEN StartsWith(rel, preserve) ELSE rel = preserve

\* function isPreserveMatch(rel, preserve) / preserveMatch(rel, preserve)
isPreserveMatch(rel, preserve) ==
  IF EndsWithSlash(preserve)
  THEN StartsWith(rel, StripTrailingSlashes(preserve) \o <<SLASH>>)
  ELSE rel = preserve

\* const preserves = (preservePaths ?? []).map(normalize)
preserves(preservePaths) == [i \in 1..Len(preservePaths) |-> normalize(preservePaths[i])]

\* const isPreservedRel = (rel) => preserves.some(p => isPreserveMatch(rel, p))
isPreservedRel(rel, preservePaths) ==
  \E i \in 1..Len(preservePaths) : isPreserveMatch(rel, preserves(preservePaths)[i])


\* ------------------------------------------------------------------------
\* Inputs of the FTP/SFTP flows
\* ------------------------------------------------------------------------
P_stale == <<"s">>                 \* stale.txt
P_robots == <<"r">>                \* robots.txt
P_ux == <<"u", "/", "x">>          \* uploads/x.jpg
P_df == <<"d", "/", "f">>          \* d/f
P_uux == <<"u", "/", "u", "/", "x">> \* uploads/uploads/x.jpg

R_uploads == <<"u", "/">>          \* "uploads/"
R_dotUploads == <<".", "/", "u", "/">> \* "./uploads/"
R_robots == <<"r">>                \* "robots.txt"

LocalUniverse == {P_robots, P_ux, P_df}
RemoteUniverse == {P_stale, P_robots, P_ux, P_uux}
RuleLists == {<<>>, <<R_uploads>>, <<R_dotUploads, R_robots>>}
Transports == {"ftp", "sftp"}
Flows == {"deploy", "restore"}
\* --concurrency (default 4)
ConcurrencyInputs == {[kind |-> "num", hi |-> 0, lo |-> 4, half |-> FALSE]}
\* confirm mode, TTY attached, --yes
GateCases ==
  {[confirm |-> "auto", interactive |-> TRUE, yes |-> FALSE,
    replies |-> {<<"y">>, <<"n">>}],
   [confirm |-> "auto", interactive |-> FALSE, yes |-> FALSE,
    replies |-> {<<"y">>, <<"n">>}]}

VARIABLES
  transport,      \* "ftp" | "sftp"
  flow,           \* "deploy" | "restore"
  preservePaths,  \* opts.preservePaths
  localFiles,     \* listLocalFiles(tmpRoot): sorted relative paths
  concurrency,    \* opts.concurrency
  gateIn,         \* confirm, interactive (isTTY), yes
  rootExists,     \* the webroot directory exists on the server
  rfiles,         \* remote files: path relative to webroot -> "old" | "rel"
  rdirs,          \* remote directories below the webroot
  run,            \* number of the current run
  dryRun,         \* opts.dryRun of the current run
  pc,             \* position of the current run
  gate,           \* "pending" | "passed" | "refused"
  asked,          \* replies typed at the "Proceed? [y/N]" prompt of this run
  connected,      \* a client session is open
  tmpRoot,        \* the local extracted release tree (temporary directory) exists
  cwd,            \* FTP session working directory, relative to the webroot
  remoteTree,     \* result of listRemoteTree
  pendingDel,     \* rest of toDelete
  relFiles,       \* uploadMany: the list being uploaded
  idx,            \* uploadMany: idx
  active,         \* uploadMany: uploads in flight (active = Cardinality)
  limit,          \* uploadMany: limit
  settled,        \* uploadMany promise: "idle" | "pending" | "resolved" | "rejected"
  idxAtReject,    \* idx when reject() was first called, -1 before
  phase,          \* "A" | "B" : which uploadMany call
  pendingPrune,   \* rest of remoteDirsDesc
  calls,          \* remote calls and dry-run announcements, in order
  faults,         \* environment faults so far
  history         \* summaries of the completed runs

\* state of the shell transport (upload.sh driven by uploadViaSSH)
VARIABLES
  shCfg,          \* environment handed to upload.sh, release content, gate inputs
  shDirs,         \* directories beside the webroot: name -> (file -> bytes)
  shBackups,      \* archives in BACKUP_DIR matching the prefix, newest first
  shArchive,      \* content of this run's archive
  shTmp,          \* artefacts under REMOTE_TMP and /tmp on the server
  shpc,           \* position of the script
  shLog,          \* remote commands issued against the webroot, in order
  shExit,         \* exit status of the script, -1 while it runs
  shDiedAt,       \* the step at which the script died, "" otherwise
  shBackupMade,   \* the backup step of this run returned 0
  shHealth,       \* "none" | "pass" | "fail"
  shRollback      \* "none" | "moved" | "restored" | "failed"

shVars == <<shCfg, shDirs, shBackups, shArchive, shTmp, shpc, shLog, shExit,
            shDiedAt, shBackupMade, shHealth, shRollback>>

syncVars == <<transport, flow, preservePaths, localFiles, concurrency, gateIn,
          rootExists, rfiles, rdirs, run, dryRun, pc, gate, asked, connected, tmpRoot,
          cwd, remoteTree, pendingDel, relFiles, idx, active, limit, settled,
          idxAtReject, phase, pendingPrune, calls, faults, history>>

\* spawnWithTimeout: the script as a child process of the Node side
VARIABLES
  timeoutMs,      \* the timeoutMs argument
  child,          \* "none" | "running" | "exited"
  exitCode,       \* code of the exit event: "0", "1", "null" (killed by a signal); "" before
  childError,     \* the child has emitted its error event
  timer,          \* "none" | "armed" | "fired" | "cleared"
  promise,        \* "idle" | "pending" | "resolved" | "timeout" | "exit" | "error"
  sigterm,        \* child.kill("SIGTERM") has been called
  elapsed         \* milliseconds since the spawn

spVars == <<timeoutMs, child, exitCode, childError, timer, promise, sigterm, elapsed>>

vars == <<syncVars, shVars, spVars>>

cfgVars == <<transport, flow, preservePaths, localFiles, concurrency, gateIn>>
poolVars == <<relFiles, idx, active, limit, settled, idxAtReject, phase>>
fsVars == <<rootExists, rfiles, rdirs>>

EmptyTree == [files |-> <<>>, dirs |-> <<>>]

DirsOf(files) == UNION {Ancestors(f) : f \in files}

\* the position at which a run starts: restoreViaSFTP connects first
StartPc(t, f) == IF t = "sftp" /\ f = "restore" THEN "connect" ELSE "confirm"

InitRun(d) ==
  /\ run = 1
  /\ dryRun = d
  /\ pc = StartPc(transport, flow)
  /\ gate = "pending"
  /\ asked = <<>>
  /\ connected = FALSE
  /\ tmpRoot = (StartPc(transport, flow) = "confirm")
  /\ cwd = <<>>
  /\ remoteTree = EmptyTree
  /\ pendingDel = <<>>
  /\ relFiles = <<>>
  /\ idx = 0
  /\ active = {}
  /\ limit = 1
  /\ settled = "idle"
  /\ idxAtReject = -1
  /\ phase = "A"
  /\ pendingPrune = <<>>
  /\ calls = <<>>
  /\ faults = 0
  /\ history = <<>>

\* the shell transport is not in use during an FTP/SFTP run
ShellIdle ==
  /\ shCfg = [dry |-> FALSE]
  /\ shDirs = <<>>
  /\ shBackups = <<>>
  /\ shArchive = <<>>
  /\ shTmp = {}
  /\ shpc = "idle"
  /\ shLog = <<>>
  /\ shExit = -1
  /\ shDiedAt = ""
  /\ shBackupMade = FALSE
  /\ shHealth = "none"
  /\ shRollback = "none"

\* no script is running under spawnWithTimeout
SpawnIdle ==
  /\ timeoutMs = 0
  /\ child = "none"
  /\ exitCode = ""
  /\ childError = FALSE
  /\ timer = "none"
  /\ promise = "idle"
  /\ sigterm = FALSE
  /\ elapsed = 0

Init ==
  /\ SpawnIdle
  /\ ShellIdle
  /\ transport \in Transports
  /\ flow \in Flows
  /\ preservePaths \in RuleLists
  /\ \E L \in SUBSET LocalUniverse :
       /\ Cardinality(L) <= MaxLocal
       /\ localFiles = SortedSeq(L)
  /\ concurrency \in ConcurrencyInputs
  /\ gateIn \in GateCases
  /\ \E R \in SUBSET RemoteUniverse :
       /\ Cardinality(R) <= MaxRemote
       /\ rfiles = [p \in R |-> "old"]
       /\ rdirs = DirsOf(R)
       /\ rootExists \in (IF R = {} THEN BOOLEAN ELSE {TRUE})
  /\ \E d \in BOOLEAN : InitRun(d)


\* ------------------------------------------------------------------------
\* Reconciliation plan (uploadViaFTP / uploadViaSFTP / restoreViaFTP /
\* restoreViaSFTP compute it the same way)
\* ------------------------------------------------------------------------
\* const localNonPreserve = localFiles.filter(f => !isPreservedRel(f))
localNonPreserve(local, rules) ==
  LET Keep(f) == ~isPreservedRel(f, rules) IN SelectSeq(local, Keep)

\* const localPreserve = localFiles.filter(f => isPreservedRel(f))
localPreserve(local, rules) ==
  LET Keep(f) == isPreservedRel(f, rules) IN SelectSeq(local, Keep)

\* const remoteNonPreserve = remoteTree.files.filter(f => !isPreservedRel(f.rel))
remoteNonPreserve(tree, rules) ==
  LET Keep(f) == ~isPreservedRel(f, rules) IN SelectSeq(tree.files, Keep)

\* mutant: the remote list is not filtered by the preserve rules
toDelete_NoPreserveFilter(local, tree, rules) ==
  LET Keep(x) == x \notin SeqToSet(local) IN SelectSeq(tree.files, Keep)

\* mutant: every non-preserved remote file is deleted, local counterpart or not
toDelete_IgnoresLocal(local, tree, rules) == remoteNonPreserve(tree, rules)

\* variant: every listed remote file is deleted
toDelete_AllListed(local, tree, rules) == tree.files

\* const toDelete = remoteNonPreserve.filter(x => !localNonPreserveSet.has(x.rel))
toDelete(local, tree, rules) ==
  LET localNonPreserveSet == SeqToSet(localNonPreserve(local, rules))
      Keep(x) == x \notin localNonPreserveSet
  IN SelectSeq(remoteNonPreserve(tree, rules), Keep)

\* mutant: Phase B uploads every preserved release file, existing remotely or not
newPreserve_NoExistenceFilter(local, tree, rules) == localPreserve(local, rules)

\* const newPreserve = localPreserve.filter(rel => !remoteFilesSet.has(rel))
newPreserve(local, tree, rules) ==
  LET remoteFilesSet == SeqToSet(tree.files)
      Keep(rel) == rel \notin remoteFilesSet
  IN SelectSeq(localPreserve(local, rules), Keep)

\* .sort((a, b) => b.length - a.length): stable, longest first
RECURSIVE SortByLengthDesc(_)
SortByLengthDesc(s) ==
  IF s = <<>> THEN <<>>
  ELSE LET k == CHOOSE i \in 1..Len(s) :
                  /\ \A j \in 1..Len(s) : Len(s[j]) <= Len(s[i])
                  /\ \A j \in 1..(i - 1) : Len(s[j]) < Len(s[i])
       IN <<s[k]>> \o SortByLengthDesc(SubSeq(s, 1, k - 1) \o SubSeq(s, k + 1, Len(s)))

\* variant: the directories are pruned in listing order
remoteDirsDesc_ListingOrder(tree, rules) ==
  LET Keep(rel) == ~isPreservedRel(rel \o <<SLASH>>, rules)
  IN SelectSeq(tree.dirs, Keep)

\* remoteTree.dirs.map(x => x.rel).filter(rel => !isPreservedRel(rel + "/")).sort(...)
remoteDirsDesc(tree, rules) ==
  LET Keep(rel) == ~isPreservedRel(rel \o <<SLASH>>, rules)
  IN SortByLengthDesc(SelectSeq(tree.dirs, Keep))

\* listRemoteTree: walk() returns without listing a directory whose list()
\* throws; `failed` are the directories (<<>> = the webroot) whose list() throws
listRemoteTree(files, dirs, failed) ==
  LET Seen(p) == <<>> \notin failed /\ Ancestors(p) \cap failed = {}
  IN [files |-> SortedSeq({f \in files : Seen(f)}),
      dirs |-> SortedSeq({d \in dirs : Seen(d)})]

\* A JavaScript number, as far as `| 0` can tell numbers apart: NaN, an
\* infinity, or hi * 2^16 + lo (+ 1/2 when half), with lo in 0 .. 2^16 - 1.
\* The two 16-bit halves keep the 32-bit width of ToInt32 explicit.
Half16 == 2 ^ 16
JsInt(n) == [kind |-> "num", hi |-> 0, lo |-> n, half |-> FALSE]
JsNum(h, l, f) == [kind |-> "num", hi |-> h, lo |-> l, half |-> f]
JsNaN == [kind |-> "nan", hi |-> 0, lo |-> 0, half |-> FALSE]
JsInfinity == [kind |-> "inf", hi |-> 0, lo |-> 0, half |-> FALSE]

\* x | 0 : ToInt32. NaN and the infinities give 0; otherwise truncate toward
\* zero, reduce modulo 2^32 and read the result as a signed 32-bit integer.
ToInt32(x) ==
  IF x.kind # "num" THEN 0
  ELSE LET up == x.half /\ x.hi < 0        \* a negative non-integer truncates upward
           lo1 == IF up THEN x.lo + 1 ELSE x.lo
           lo2 == lo1 % Half16
           hi1 == IF lo1 >= Half16 THEN x.hi + 1 ELSE x.hi
           hi2 == hi1 % Half16
           hi3 == IF hi2 >= Half16 \div 2 THEN hi2 - Half16 ELSE hi2
       IN  hi3 * Half16 + lo2

\* variant: the lower bound Math.max(1, ...) is missing
clampLimit_NoFloor(c) ==
  LET n == ToInt32(c) IN IF n < 16 THEN n ELSE 16

\* Math.max(1, Math.min(16, opts.concurrency | 0))
clampLimit(c) ==
  LET n == ToInt32(c)
      m == IF n < 16 THEN n ELSE 16
  IN  IF m > 1 THEN m ELSE 1

\* the concurrency handed to uploadMany: FTP passes effConc = 1
effConc(t, c) == IF t = "ftp" THEN JsInt(1) ELSE c

\* ------------------------------------------------------------------------
\* The call log
\* ------------------------------------------------------------------------
Call(op, path, ph) == [run |-> run, op |-> op, path |-> path, phase |-> ph, dry |-> dryRun]

\* remote calls that change the server
MutatingOps == {"mkdir", "put", "delete", "rmdirFallback", "rmdir"}

CallsOf(r, op) == {i \in 1..Len(calls) : calls[i].run = r /\ calls[i].op = op}

CountCalls(r, op, path) ==
  Cardinality({i \in CallsOf(r, op) : calls[i].path = path})


\* ------------------------------------------------------------------------
\* Confirmation gate and connection
\* ------------------------------------------------------------------------
\* variant: the consent flag silences the prompt in mode always too
maybeConfirm_YesSkipsAlways(g) ==
  IF g.confirm = "never" THEN "proceed"
  ELSE IF ~g.interactive /\ ~g.yes THEN "throw"
  ELSE IF g.interactive /\ ~g.yes THEN "prompt"
  ELSE "proceed"

\* maybeConfirm: "prompt" when the question is asked, "throw" for the
\* non-interactive error, "proceed" otherwise
maybeConfirm(g) ==
  IF g.confirm = "never" THEN "proceed"
  ELSE IF ~g.interactive /\ ~g.yes THEN "throw"
  ELSE IF g.interactive /\ (g.confirm = "always" \/ (g.confirm = "auto" /\ ~g.yes))
       THEN "prompt"
  ELSE "proceed"

\* ans.trim()
RECURSIVE Trim(_)
Trim(a) ==
  IF a = <<>> THEN a
  ELSE IF Head(a) = " " THEN Trim(Tail(a))
  ELSE IF a[Len(a)] = " " THEN Trim(SubSeq(a, 1, Len(a) - 1))
  ELSE a

\* the /i flag of the test
LowerCase(a) ==
  [i \in 1..Len(a) |->
     CASE a[i] = "Y" -> "y"
       [] a[i] = "E" -> "e"
       [] a[i] = "S" -> "s"
       [] a[i] = "N" -> "n"
       [] a[i] = "O" -> "o"
       [] OTHER -> a[i]]

\* /^(y|yes)$/i.test(ans.trim())
Accepts(ans) == LowerCase(Trim(ans)) \in {<<"y">>, <<"y", "e", "s">>}

\* await maybeConfirm(preview, confirm, yes)
Confirm ==
  /\ pc = "confirm"
  /\ LET d == maybeConfirm(gateIn)
         go == IF connected THEN "ensureRoot" ELSE "connect"
     IN  IF d = "prompt"
           THEN \E ans \in gateIn.replies :
                  /\ asked' = Append(asked, ans)
                  /\ gate' = IF Accepts(ans) THEN "passed" ELSE "refused"
                  /\ pc' = IF Accepts(ans) THEN go ELSE "failed"
           ELSE /\ asked' = asked
                /\ gate' = IF d = "proceed" THEN "passed" ELSE "refused"
                /\ pc' = IF d = "proceed" THEN go ELSE "failed"
  /\ UNCHANGED <<spVars, shVars, cfgVars, fsVars, poolVars, run, dryRun, connected, tmpRoot, cwd,
                 remoteTree, pendingDel, pendingPrune, calls, faults, history>>

\* await client.access(access) / await sftp.connect({...});
\* restoreViaSFTP extracts the archive after it has connected
Connect ==
  /\ pc = "connect"
  /\ connected' = TRUE
  /\ tmpRoot' = TRUE
  /\ pc' = IF gate = "passed" THEN "ensureRoot" ELSE "confirm"
  /\ UNCHANGED <<spVars, shVars, asked, cfgVars, fsVars, poolVars, run, dryRun, gate, cwd,
                 remoteTree, pendingDel, pendingPrune, calls, faults, history>>

\* the connection attempt throws
ConnectFails ==
  /\ pc = "connect"
  /\ faults < MaxFaults
  /\ faults' = faults + 1
  /\ pc' = "failed"
  /\ UNCHANGED <<spVars, shVars, asked, cfgVars, fsVars, poolVars, run, dryRun, gate, connected, tmpRoot,
                 cwd, remoteTree, pendingDel, pendingPrune, calls, history>>

\* await client.ensureDir(resolvedWebroot); await client.cd(resolvedWebroot)
\* await ensureDirAbs(sftp, resolvedWebroot)
EnsureWebroot ==
  /\ pc = "ensureRoot"
  /\ rootExists' = TRUE
  /\ cwd' = <<>>
  /\ calls' = Append(calls, Call("mkdir", <<>>, "pre"))
  /\ pc' = "list"
  /\ UNCHANGED <<spVars, shVars, asked, cfgVars, poolVars, rfiles, rdirs, run, dryRun, gate, connected,
                 tmpRoot, remoteTree, pendingDel, pendingPrune, faults, history>>

\* const remoteTree = await listRemoteTree(...); the plan is computed from it
ListRemote ==
  /\ pc = "list"
  /\ \E failed \in SUBSET (rdirs \cup {<<>>}) :
       /\ Cardinality(failed) <= MaxFaults - faults
       /\ faults' = faults + Cardinality(failed)
       /\ remoteTree' = listRemoteTree(DOMAIN rfiles, rdirs, failed)
  /\ pendingDel' = toDelete(localFiles, remoteTree', preservePaths)
  /\ pc' = "delete"
  /\ UNCHANGED <<spVars, shVars, asked, cfgVars, fsVars, poolVars, run, dryRun, gate, connected, tmpRoot,
                 cwd, pendingPrune, calls, history>>

\* ------------------------------------------------------------------------
\* Phase A deletes
\* ------------------------------------------------------------------------
\* the server path a relative path names: FTP resolves it against the
\* session's working directory, SFTP joins it to the webroot
Resolve(rel) == IF transport = "ftp" THEN joinRemote(cwd, rel) ELSE rel

RemoveFile(files, target) == [p \in (DOMAIN files) \ {target} |-> files[p]]

\* variant: a delete whose fallback fails too ends the run
DeleteStep_FailureAborts ==
  /\ pc = "delete"
  /\ pendingDel # <<>>
  /\ LET rel == Head(pendingDel) IN
       \/ /\ dryRun
          /\ calls' = Append(calls, Call("announce_rm", rel, "A"))
          /\ UNCHANGED <<rfiles, faults, pc>>
       \/ /\ ~dryRun
          /\ calls' = Append(calls, Call("delete", rel, "A"))
          /\ rfiles' = RemoveFile(rfiles, Resolve(rel))
          /\ UNCHANGED <<faults, pc>>
       \/ /\ ~dryRun
          /\ faults < MaxFaults
          /\ faults' = faults + 1
          /\ calls' = calls \o <<Call("delete", rel, "A"), Call("rmdirFallback", rel, "A")>>
          /\ pc' = "failed"
          /\ UNCHANGED rfiles
  /\ pendingDel' = Tail(pendingDel)
  /\ UNCHANGED <<spVars, shVars, asked, cfgVars, poolVars, rootExists, rdirs, run, dryRun, gate,
                 connected, tmpRoot, cwd, remoteTree, pendingPrune, history>>

\* for (const rel of toDelete) { if (dryRun) {log; continue;} await safeRemoveFile(...) }
DeleteStep ==
  /\ pc = "delete"
  /\ pendingDel # <<>>
  /\ LET rel == Head(pendingDel) IN
       \/ /\ dryRun
          /\ calls' = Append(calls, Call("announce_rm", rel, "A"))
          /\ UNCHANGED <<rfiles, faults>>
       \/ /\ ~dryRun
          /\ calls' = Append(calls, Call("delete", rel, "A"))
          /\ rfiles' = RemoveFile(rfiles, Resolve(rel))
          /\ UNCHANGED faults
       \/ \* remove() throws, the removeDir fallback throws too: swallowed
          /\ ~dryRun
          /\ faults < MaxFaults
          /\ faults' = faults + 1
          /\ calls' = calls \o <<Call("delete", rel, "A"), Call("rmdirFallback", rel, "A")>>
          /\ UNCHANGED rfiles
  /\ pendingDel' = Tail(pendingDel)
  /\ UNCHANGED <<spVars, shVars, asked, cfgVars, poolVars, rootExists, rdirs, run, dryRun, pc, gate,
                 connected, tmpRoot, cwd, remoteTree, pendingPrune, history>>


\* ------------------------------------------------------------------------
\* uploadMany / uploadManySftp: the worker pool
\* ------------------------------------------------------------------------
Min(a, b) == IF a < b THEN a ELSE b

\* while (active < limit && idx < relFiles.length): how many uploads next() starts
Dispatchable(i, act, lst, lim) ==
  LET room == lim - Cardinality(act)
      left == Len(lst) - i
  IN IF room <= 0 \/ left <= 0 THEN 0 ELSE Min(room, left)

\* variant: the pool resolves as soon as the last file is dispatched
PoolFinished_IgnoresActive(i, act, lst) == i >= Len(lst)

\* if (idx >= relFiles.length && active === 0) return resolve()
PoolFinished(i, act, lst) == i >= Len(lst) /\ act = {}

\* mutant: with dryRun the pool resolves without announcing the uploads
UploadMany_SilentDryRun(lst, ph) ==
  /\ relFiles' = lst
  /\ limit' = clampLimit(effConc(transport, concurrency))
  /\ phase' = ph
  /\ idxAtReject' = -1
  /\ IF dryRun
     THEN /\ idx' = Len(lst)
          /\ active' = {}
          /\ settled' = "resolved"
          /\ calls' = calls
     ELSE /\ idx' = Dispatchable(0, {}, lst, limit')
          /\ active' = {lst[i] : i \in 1..idx'}
          /\ settled' = IF PoolFinished(0, {}, lst) THEN "resolved" ELSE "pending"
          /\ calls' = calls

\* the synchronous body of uploadMany(client, root, lst, {concurrency, dryRun}).
\* With dryRun no upload awaits anything: every file is announced in order and
\* the promise resolves before uploadMany returns.
UploadMany(lst, ph) ==
  LET lim == clampLimit(effConc(transport, concurrency))
      k == Dispatchable(0, {}, lst, lim)
  IN /\ relFiles' = lst
     /\ limit' = lim
     /\ phase' = ph
     /\ idxAtReject' = -1
     /\ IF dryRun
        THEN /\ idx' = Len(lst)
             /\ active' = {}
             /\ settled' = "resolved"
             /\ calls' = calls \o [i \in 1..Len(lst) |-> Call("announce_up", lst[i], ph)]
        ELSE /\ idx' = k
             /\ active' = {lst[i] : i \in 1..k}
             /\ settled' = IF PoolFinished(0, {}, lst) THEN "resolved" ELSE "pending"
             /\ calls' = calls

\* finally { active--; next(); } : the state of the pool after upload `rel` ended
AfterUpload(rel, failedNow) ==
  LET act == active \ {rel}
      k == Dispatchable(idx, act, relFiles, limit)
  IN /\ idx' = idx + k
     /\ active' = act \cup {relFiles[i] : i \in (idx + 1)..(idx + k)}
     /\ settled' = IF settled # "pending" THEN settled
                   ELSE IF failedNow THEN "rejected"
                   ELSE IF PoolFinished(idx, act, relFiles) THEN "resolved"
                   ELSE "pending"
     /\ idxAtReject' = IF failedNow /\ idxAtReject = -1 THEN idx ELSE idxAtReject
     /\ UNCHANGED <<relFiles, limit, phase>>

\* FTP: if (dirRel && dirRel !== ".") await client.ensureDir(dirRel)
\* ensureDir creates the directories below the working directory and leaves
\* the session inside the last one
FtpCwdAfterEnsure(rel) ==
  IF dirname(rel) = <<DOT>> THEN cwd ELSE joinRemote(cwd, dirname(rel))

\* directories that exist after the upload's ensureDir / ensureDirAbs
DirsAfterEnsure(rel) ==
  IF transport = "ftp"
  THEN rdirs \cup (IF dirname(rel) = <<DOT>> THEN {}
                   ELSE {FtpCwdAfterEnsure(rel)} \cup Ancestors(FtpCwdAfterEnsure(rel)))
  ELSE rdirs \cup Ancestors(rel)

\* the server path written by client.uploadFrom(local, rel) / sftp.fastPut(local, remote)
PutTarget(rel) ==
  IF transport = "ftp" THEN joinRemote(FtpCwdAfterEnsure(rel), rel) ELSE rel

\* the server accepts the upload: the directory of the target exists
PutAccepted(rel) ==
  \/ dirname(PutTarget(rel)) = <<DOT>>
  \/ dirname(PutTarget(rel)) \in DirsAfterEnsure(rel)

UploadCalls(rel) ==
  (IF transport = "sftp" \/ dirname(rel) # <<DOT>>
   THEN <<Call("mkdir", IF dirname(rel) = <<DOT>> THEN <<>> ELSE dirname(rel), phase)>>
   ELSE <<>>) \o <<Call("put", rel, phase)>>

\* an upload in flight completes
UploadDone ==
  /\ \E rel \in active :
       /\ PutAccepted(rel)
       /\ rdirs' = DirsAfterEnsure(rel)
       /\ rfiles' = [p \in (DOMAIN rfiles) \cup {PutTarget(rel)} |->
                       IF p = PutTarget(rel) THEN "rel" ELSE rfiles[p]]
       /\ cwd' = IF transport = "ftp" THEN FtpCwdAfterEnsure(rel) ELSE cwd
       /\ calls' = calls \o UploadCalls(rel)
       /\ AfterUpload(rel, FALSE)
  /\ UNCHANGED <<spVars, shVars, asked, cfgVars, rootExists, run, dryRun, pc, gate, connected, tmpRoot,
                 remoteTree, pendingDel, pendingPrune, faults, history>>

\* an upload in flight throws: the server refuses the target path, or the
\* transfer fails. catch (e) { return reject(e); } finally { active--; next(); }
UploadFails ==
  /\ \E rel \in active :
       /\ \/ ~PutAccepted(rel) /\ UNCHANGED faults
          \/ PutAccepted(rel) /\ faults < MaxFaults /\ faults' = faults + 1
       /\ rdirs' = DirsAfterEnsure(rel)
       /\ cwd' = IF transport = "ftp" THEN FtpCwdAfterEnsure(rel) ELSE cwd
       /\ calls' = calls \o UploadCalls(rel)
       /\ AfterUpload(rel, TRUE)
  /\ UNCHANGED <<spVars, shVars, asked, cfgVars, rootExists, rfiles, run, dryRun, pc, gate, connected,
                 tmpRoot, remoteTree, pendingDel, pendingPrune, history>>

\* ------------------------------------------------------------------------
\* Phase A uploads, Phase B, pruning, end of the run
\* ------------------------------------------------------------------------
\* the prune loop: deploy only, and `if (dryRun) continue` for every directory
PruneList ==
  IF flow = "deploy" /\ ~dryRun THEN remoteDirsDesc(remoteTree, preservePaths) ELSE <<>>

\* variant: the Phase A uploads start while deletes are still waiting
StartPhaseA_SkipsDeletes ==
  /\ pc = "delete"
  /\ IF Len(localNonPreserve(localFiles, preservePaths)) > 0
     THEN /\ UploadMany(localNonPreserve(localFiles, preservePaths), "A")
          /\ pc' = "awaitA"
     ELSE /\ pc' = "phaseB"
          /\ UNCHANGED <<poolVars, calls>>
  /\ UNCHANGED <<spVars, shVars, asked, cfgVars, fsVars, run, dryRun, gate, connected, tmpRoot, cwd,
                 remoteTree, pendingDel, pendingPrune, faults, history>>

\* if (localNonPreserve.length) await uploadMany(..., localNonPreserve, ...)
StartPhaseA ==
  /\ pc = "delete"
  /\ pendingDel = <<>>
  /\ IF Len(localNonPreserve(localFiles, preservePaths)) > 0
     THEN /\ UploadMany(localNonPreserve(localFiles, preservePaths), "A")
          /\ pc' = "awaitA"
     ELSE /\ pc' = "phaseB"
          /\ UNCHANGED <<poolVars, calls>>
  /\ UNCHANGED <<spVars, shVars, asked, cfgVars, fsVars, run, dryRun, gate, connected, tmpRoot, cwd,
                 remoteTree, pendingDel, pendingPrune, faults, history>>

\* deploy: if (localPreserve.length) { newPreserve = ...; await uploadMany(newPreserve) }
\* restore: if (newPreserve.length) await uploadMany(newPreserve)
PhaseBGuard ==
  IF flow = "deploy"
  THEN Len(localPreserve(localFiles, preservePaths)) > 0
  ELSE Len(newPreserve(localFiles, remoteTree, preservePaths)) > 0

StartPhaseB ==
  /\ pc = "phaseB"
  /\ IF PhaseBGuard
     THEN /\ UploadMany(newPreserve(localFiles, remoteTree, preservePaths), "B")
          /\ pc' = "awaitB"
          /\ UNCHANGED pendingPrune
     ELSE /\ pc' = "prune"
          /\ pendingPrune' = PruneList
          /\ UNCHANGED <<poolVars, calls>>
  /\ UNCHANGED <<spVars, shVars, asked, cfgVars, fsVars, run, dryRun, gate, connected, tmpRoot, cwd,
                 remoteTree, pendingDel, faults, history>>

\* the await on uploadMany returns, or throws when the promise was rejected
AwaitPool ==
  /\ pc \in {"awaitA", "awaitB"}
  /\ settled \in {"resolved", "rejected"}
  /\ pc' = IF settled = "rejected" THEN "failed"
           ELSE IF pc = "awaitA" THEN "phaseB" ELSE "prune"
  /\ pendingPrune' = IF settled = "resolved" /\ pc = "awaitB" THEN PruneList ELSE pendingPrune
  /\ UNCHANGED <<spVars, shVars, asked, cfgVars, fsVars, poolVars, run, dryRun, gate, connected, tmpRoot,
                 cwd, remoteTree, pendingDel, calls, faults, history>>

\* no file and no directory lies below directory d
IsEmptyDir(d) ==
  /\ \A f \in DOMAIN rfiles : d \notin Ancestors(f)
  /\ \A e \in rdirs : d \notin Ancestors(e)

\* FTP: const list = await client.list(rel); if (!list.length) await client.removeDir(rel)
\* SFTP: await sftp.rmdir(joinRemote(resolvedWebroot, rel))
\* every failure is swallowed
PruneStep ==
  /\ pc = "prune"
  /\ pendingPrune # <<>>
  /\ LET rel == Head(pendingPrune)
         target == Resolve(rel)
         removable == target \in rdirs /\ IsEmptyDir(target)
     IN \/ /\ transport = "ftp"
           /\ removable
           /\ rdirs' = rdirs \ {target}
           /\ calls' = Append(calls, Call("rmdir", rel, "prune"))
           /\ UNCHANGED faults
        \/ /\ transport = "ftp"
           /\ ~removable
           /\ UNCHANGED <<rdirs, calls, faults>>
        \/ /\ transport = "sftp"
           /\ rdirs' = IF removable THEN rdirs \ {target} ELSE rdirs
           /\ calls' = Append(calls, Call("rmdir", rel, "prune"))
           /\ UNCHANGED faults
        \/ \* the list / rmdir call itself fails
           /\ faults < MaxFaults
           /\ faults' = faults + 1
           /\ calls' = IF transport = "sftp"
                       THEN Append(calls, Call("rmdir", rel, "prune")) ELSE calls
           /\ UNCHANGED rdirs
  /\ pendingPrune' = Tail(pendingPrune)
  /\ UNCHANGED <<spVars, shVars, asked, cfgVars, poolVars, rootExists, rfiles, run, dryRun, pc, gate,
                 connected, tmpRoot, cwd, remoteTree, pendingDel, history>>

\* await client.close(); fs.rmSync(tmpRoot, ...); the run has succeeded
Finish ==
  /\ pc = "prune"
  /\ pendingPrune = <<>>
  /\ connected' = FALSE
  /\ tmpRoot' = FALSE
  /\ pc' = "done"
  /\ history' = Append(history, [run |-> run, dryRun |-> dryRun, tree |-> remoteTree])
  /\ UNCHANGED <<spVars, shVars, asked, cfgVars, fsVars, poolVars, run, dryRun, gate, cwd, remoteTree,
                 pendingDel, pendingPrune, calls, faults>>

\* the operator runs the same command again after a run that succeeded
NextRun ==
  /\ pc = "done"
  /\ run < MaxRuns
  /\ run' = run + 1
  /\ dryRun' \in BOOLEAN
  /\ pc' = StartPc(transport, flow)
  /\ gate' = "pending"
  /\ asked' = <<>>
  /\ tmpRoot' = (StartPc(transport, flow) = "confirm")
  /\ cwd' = <<>>
  /\ remoteTree' = EmptyTree
  /\ relFiles' = <<>>
  /\ idx' = 0
  /\ active' = {}
  /\ limit' = 1
  /\ settled' = "idle"
  /\ idxAtReject' = -1
  /\ phase' = "A"
  /\ UNCHANGED <<spVars, shVars, cfgVars, fsVars, connected, pendingDel, pendingPrune, calls,
                 faults, history>>

Next ==
  \/ Confirm
  \/ Connect
  \/ ConnectFails
  \/ EnsureWebroot
  \/ ListRemote
  \/ DeleteStep
  \/ StartPhaseA
  \/ UploadDone
  \/ UploadFails
  \/ AwaitPool
  \/ StartPhaseB
  \/ PruneStep
  \/ Finish
  \/ NextRun

Spec == Init /\ [][Next]_vars


\* ------------------------------------------------------------------------
\* The worker pool under every kind of configured concurrency
\* ------------------------------------------------------------------------
\* --concurrency as the CLI hands it over: Number(get("concurrency"))
PoolConcurrencyInputs ==
  {JsNaN, JsInfinity,
   JsInt(0), JsInt(1), JsInt(2), JsInt(3), JsInt(16), JsInt(17),
   JsNum(-1, Half16 - 3, FALSE),          \* -3
   JsNum(0, 0, TRUE),                     \* 0.5
   JsNum(0, 2, TRUE),                     \* 2.5
   JsNum(-1, Half16 - 1, TRUE),           \* -0.5
   JsNum(Half16 \div 2, 0, FALSE),        \* 2^31
   JsNum(Half16, 2, FALSE),               \* 2^32 + 2
   JsNum(Half16 - 1, Half16 - 1, FALSE)}  \* 2^32 - 1

\* a release of three files, so that a limit of 1 and of 2 leaves work waiting
InitPool ==
  /\ SpawnIdle
  /\ ShellIdle
  /\ transport \in Transports
  /\ flow = "deploy"
  /\ preservePaths \in {<<>>, <<R_uploads>>}
  /\ localFiles = SortedSeq(LocalUniverse)
  /\ concurrency \in PoolConcurrencyInputs
  /\ gateIn = [confirm |-> "auto", interactive |-> TRUE, yes |-> FALSE,
               replies |-> {<<"y">>, <<"n">>}]
  /\ \E R \in SUBSET RemoteUniverse :
       /\ Cardinality(R) <= 1
       /\ rfiles = [p \in R |-> "old"]
       /\ rdirs = DirsOf(R)
       /\ rootExists = TRUE
  /\ \E d \in BOOLEAN : InitRun(d)

SpecPool == InitPool /\ [][Next]_vars


\* ------------------------------------------------------------------------
\* Properties of the FTP/SFTP flows
\* ------------------------------------------------------------------------
Listed == SeqToSet(remoteTree.files)
Local == SeqToSet(localFiles)
Preserved(p) == isPreservedRel(p, preservePaths)
PastDeletes == pc \in {"awaitA", "phaseB", "awaitB", "prune", "done"}
PastPhaseB == pc \in {"prune", "done"}

\* paths of the calls `op` of run r in phase ph
PathsOf(r, op, ph) == {calls[i].path : i \in {j \in CallsOf(r, op) : calls[j].phase = ph}}
CountOf(r, op, ph) == Cardinality({j \in CallsOf(r, op) : calls[j].phase = ph})

StaleRemote == {r \in Listed : ~Preserved(r) /\ r \notin Local}

\* C2: the deletes of a run are exactly one delete(r) for every listed remote
\* file r that matches no preserve rule and has no local counterpart; they are
\* issued in Phase A, before any upload of the run.
C2_DeletesExactlyStale ==
  /\ \A i \in CallsOf(run, "delete") :
       /\ calls[i].path \in StaleRemote
       /\ CountCalls(run, "delete", calls[i].path) = 1
       /\ \A j \in 1..i : ~(calls[j].run = run /\ calls[j].op = "put")
  /\ (PastDeletes /\ ~dryRun) =>
       \A r \in StaleRemote : CountCalls(run, "delete", r) = 1

\* Scenario A: stale.txt was deleted, uploads/x.jpg stayed
C2_Witness ==
  /\ pc = "done" /\ ~dryRun
  /\ CountCalls(run, "delete", P_stale) = 1
  /\ P_stale \notin DOMAIN rfiles
  /\ P_ux \in Listed /\ Preserved(P_ux) /\ P_ux \in DOMAIN rfiles

\* the previous run was a live run that succeeded
AfterLiveRun == run > 1 /\ ~history[run - 1].dryRun

\* C3 (as claimed): a preserved release file absent from the remote file set
\* is put exactly once by a run; the run started right after it puts it zero
\* times; no other preserved path is put.
C3_MergeOnceThenNever ==
  /\ (PastPhaseB /\ ~dryRun) =>
       \A p \in Local : (Preserved(p) /\ p \notin Listed) => CountCalls(run, "put", p) = 1
  /\ \A i \in CallsOf(run, "put") :
       Preserved(calls[i].path) => calls[i].path \notin Listed
  /\ AfterLiveRun =>
       \A p \in PathsOf(run - 1, "put", "B") : CountCalls(run, "put", p) = 0

\* C5 (as claimed): with dryRun no remote-mutating call is made.
C5_DryRunIssuesNoMutation ==
  \A i \in 1..Len(calls) : calls[i].dry => calls[i].op \notin MutatingOps

\* C6: a dry run and a live run on the same release, rules and listed remote
\* tree plan the same operations: the deletes, Phase A uploads and Phase B
\* uploads announced by the dry run are those performed by the live run.
C6_DryPlanEqualsLivePlan ==
  \A d \in 1..Len(history) :
    (/\ history[d].dryRun
     /\ pc = "done" /\ ~dryRun /\ d < run
     /\ history[d].tree = remoteTree)
    => /\ PathsOf(d, "announce_rm", "A") = PathsOf(run, "delete", "A")
       /\ CountOf(d, "announce_rm", "A") = CountOf(run, "delete", "A")
       /\ PathsOf(d, "announce_up", "A") = PathsOf(run, "put", "A")
       /\ CountOf(d, "announce_up", "A") = CountOf(run, "put", "A")
       /\ PathsOf(d, "announce_up", "B") = PathsOf(run, "put", "B")
       /\ CountOf(d, "announce_up", "B") = CountOf(run, "put", "B")

\* a dry run then a live run on the same tree, with a delete and uploads in both phases
C6_Witness ==
  /\ run = 2 /\ pc = "done" /\ ~dryRun
  /\ history[1].dryRun /\ history[1].tree = remoteTree
  /\ CountOf(2, "delete", "A") = 1
  /\ CountOf(2, "put", "A") = 1
  /\ CountOf(2, "put", "B") = 1

WritesInPlace == transport = "sftp" \/ \A f \in Local : dirname(f) = <<DOT>>

C10_NoDispatchAfterFailure ==
  idxAtReject # -1 => idx = idxAtReject


\* ------------------------------------------------------------------------
\* The confirmation gate under every mode, session kind and consent flag
\* ------------------------------------------------------------------------
\* what an operator may type at "Proceed? [y/N] "
Replies ==
  {<<>>, <<"y">>, <<"Y">>, <<"y", "e", "s">>, <<"Y", "E", "S">>,
   <<" ", "y", " ">>, <<"n">>, <<"y", "e">>, <<"y", "e", "s", "s">>,
   <<"n", "o">>}

\* confirm: "auto" | "always" | "never"
ConfirmModes == {"auto", "always", "never"}

AllGateCases ==
  [confirm : ConfirmModes, interactive : BOOLEAN, yes : BOOLEAN,
   replies : {Replies}]

InitGate ==
  /\ SpawnIdle
  /\ ShellIdle
  /\ transport \in Transports
  /\ flow \in Flows
  /\ preservePaths = <<R_uploads>>
  /\ localFiles = SortedSeq({P_robots, P_ux})
  /\ concurrency \in ConcurrencyInputs
  /\ gateIn \in AllGateCases
  /\ rfiles = [p \in {P_stale, P_df} |-> "old"]
  /\ rdirs = DirsOf({P_stale, P_df})
  /\ rootExists = TRUE
  /\ \E d \in BOOLEAN : InitRun(d)

SpecGate == InitGate /\ [][Next]_vars

\* the gate has decided in the current run
GateDecided == gate # "pending"
Prompted == asked # <<>>

\* C12: whenever the FTP/SFTP gate has decided: mode never passed without a
\* prompt; mode always prompted iff the session is interactive and otherwise
\* passed iff the consent flag is set; mode auto prompted iff interactive
\* without the consent flag; a non-interactive session without the flag
\* (mode not never) was refused without a prompt; a prompt was asked once
\* and passed iff the trimmed reply is y or yes in any letter case.
C12_GateDecisionTable ==
  GateDecided =>
    /\ gateIn.confirm = "never" => gate = "passed" /\ ~Prompted
    /\ gateIn.confirm = "always" =>
         /\ Prompted <=> gateIn.interactive
         /\ ~gateIn.interactive => (gate = "passed" <=> gateIn.yes)
    /\ gateIn.confirm = "auto" =>
         /\ Prompted <=> (gateIn.interactive /\ ~gateIn.yes)
         /\ ~Prompted => (gate = "passed" <=> gateIn.yes)
    /\ (gateIn.confirm # "never" /\ ~gateIn.interactive /\ ~gateIn.yes) =>
         gate = "refused" /\ ~Prompted
    /\ Prompted =>
         /\ Len(asked) = 1
         /\ gate = "passed" <=>
              asked[1] \in {<<"y">>, <<"Y">>, <<"y", "e", "s">>,
                            <<"Y", "E", "S">>, <<" ", "y", " ">>}

\* mode always with the consent flag set still prompts, and the reply
\* " y " lets the run reach its uploads
C12_Witness ==
  /\ gateIn.confirm = "always"
  /\ gateIn.yes
  /\ asked = << <<" ", "y", " ">> >>
  /\ gate = "passed"
  /\ pc = "awaitA"


\* C13: in every FTP/SFTP flow no connection to the server is open while
\* the confirmation gate has not passed (still pending, or refused).
C13_GateBeforeConnection == gate # "passed" => ~connected

\* C20: whenever a run has ended, successfully or not, its local extracted
\* release tree has been deleted.
C20_TempTreeDeletedAtEnd == pc \in {"done", "failed"} => ~tmpRoot


\* the configured value lies in 1..16
ConfiguredInRange(c) ==
  /\ c.kind = "num"
  /\ c.hi = 0
  /\ c.lo >= 1
  /\ c.lo < 16 \/ (c.lo = 16 /\ ~c.half)

\* C11: in every state of Phase A and Phase B the number of uploads in
\* flight is at most the limit of the pool; the limit is an integer in 1..16
\* whatever value was configured (0, negative, fractional, NaN, above 16,
\* beyond the 32-bit range), and is not above a configured value in 1..16.
C11_InFlightWithinLimit ==
  /\ Cardinality(active) <= limit
  /\ limit \in 1..16
  /\ clampLimit(concurrency) \in 1..16
  /\ ConfiguredInRange(concurrency) =>
       /\ limit <= concurrency.lo
       /\ clampLimit(concurrency) <= concurrency.lo

\* the pool is saturated with a file still waiting, under a configured value
\* beyond the 32-bit range
C11_Witness ==
  /\ settled = "pending"
  /\ concurrency.hi > 0
  /\ limit = 2
  /\ Cardinality(active) = limit
  /\ idx < Len(relFiles)


\* ------------------------------------------------------------------------
\* Shell transport: uploadViaSSH (src/remote-ssh.ts) running upload.sh
\* ------------------------------------------------------------------------

MaxBackups == 2    \* archives already in BACKUP_DIR before the run

\* the directory name upload.sh writes into every archive and FAILED_DIR
PUBLIC_HTML == "public_html"
\* ${WEBROOT%/*}/public_html.failed-${RELEASE_ID}
FAILED_DIR == "public_html.failed"
\* last path component of WEBROOT
WebrootNames == {PUBLIC_HTML, "htdocs"}
\* BACKUP_RETAIN
RetainInputs == {0, 1, 2}
\* PRESERVE_NL
ShRuleLists == {<<R_uploads>>, <<R_uploads, R_robots>>}
ShReleaseUniverse == {P_robots, P_ux}
ShWebrootUniverse == {P_stale, P_robots, P_ux}
\* confirm mode, TTY on stdin/stdout, YES/FORCE in the environment
ShGateCases ==
  {[confirm |-> "auto", interactive |-> TRUE, yes |-> FALSE],
   [confirm |-> "auto", interactive |-> FALSE, yes |-> FALSE],
   [confirm |-> "auto", interactive |-> FALSE, yes |-> TRUE],
   [confirm |-> "never", interactive |-> FALSE, yes |-> FALSE]}
\* content of a directory named public_html beside a webroot of another name
SiblingTree == [p \in {P_stale} |-> "sib"]
\* the archive of this run is newer than every archive found in BACKUP_DIR
CurId == MaxBackups + 1
\* ${BACKUP_PREFIX}-${RELEASE_ID}.tar.gz
CurArchive == [id |-> CurId, own |-> TRUE]
\* an archive in BACKUP_DIR whose name does not start with BACKUP_PREFIX
OtherArchive == [id |-> 0, own |-> FALSE]
\* BACKUP_DIR before the run, newest first: k archives of this prefix and,
\* when there are any, one archive of another site just older than the newest
OldArchives(k) ==
  IF k = 0 THEN <<>>
  ELSE <<[id |-> k, own |-> TRUE], OtherArchive>>
         \o [i \in 1..(k - 1) |-> [id |-> k - i, own |-> TRUE]]

\* the FTP/SFTP transports are not in use during a shell run
SyncIdle ==
  /\ transport = "ssh"
  /\ flow = "deploy"
  /\ preservePaths = <<>>
  /\ localFiles = <<>>
  /\ concurrency \in ConcurrencyInputs
  /\ gateIn = [confirm |-> "auto", interactive |-> FALSE, yes |-> FALSE,
               replies |-> {}]
  /\ rootExists = TRUE
  /\ rfiles = <<>>
  /\ rdirs = {}
  /\ run = 1
  /\ dryRun = FALSE
  /\ pc = "idle"
  /\ gate = "pending"
  /\ asked = <<>>
  /\ connected = FALSE
  /\ tmpRoot = FALSE
  /\ cwd = <<>>
  /\ remoteTree = EmptyTree
  /\ pendingDel = <<>>
  /\ relFiles = <<>>
  /\ idx = 0
  /\ active = {}
  /\ limit = 1
  /\ settled = "idle"
  /\ idxAtReject = -1
  /\ phase = "A"
  /\ pendingPrune = <<>>
  /\ calls = <<>>
  /\ faults = 0
  /\ history = <<>>

InitShell ==
  /\ SpawnIdle
  /\ SyncIdle
  /\ \E d, rb, kf, there, sib \in BOOLEAN, rt \in RetainInputs,
        nm \in WebrootNames, g \in ShGateCases, rules \in ShRuleLists,
        L \in SUBSET ShReleaseUniverse, W \in SUBSET ShWebrootUniverse,
        k \in 0..MaxBackups :
       /\ Cardinality(L) <= MaxLocal
       /\ Cardinality(W) <= MaxRemote
       /\ nm = PUBLIC_HTML => ~sib
       /\ ~there => W = {}
       /\ shDirs = [n \in (IF there THEN {nm} ELSE {}) \cup
                          (IF sib THEN {PUBLIC_HTML} ELSE {}) |->
                      IF n = nm THEN [p \in W |-> "old"] ELSE SiblingTree]
       /\ shCfg = [dry |-> d, retain |-> rt, rootName |-> nm,
                   rollbackOnFail |-> rb, keepFailed |-> kf, gate |-> g,
                   preserve |-> rules, release |-> L, dirs0 |-> shDirs,
                   backups0 |-> OldArchives(k)]
       /\ shBackups = OldArchives(k)
  /\ shArchive = <<>>
  /\ shTmp = {}
  /\ shpc = "node"
  /\ shLog = <<>>
  /\ shExit = -1
  /\ shDiedAt = ""
  /\ shBackupMade = FALSE
  /\ shHealth = "none"
  /\ shRollback = "none"

\* directory table helpers
RemoveDir(dirs, n) == [m \in DOMAIN dirs \ {n} |-> dirs[m]]
PutDir(dirs, n, tree) ==
  [m \in DOMAIN dirs \cup {n} |-> IF m = n THEN tree ELSE dirs[m]]
\* tar -x / cp of `over` on top of `base`
Overlay(base, over) ==
  [p \in DOMAIN base \cup DOMAIN over |->
     IF p \in DOMAIN over THEN over[p] ELSE base[p]]
TreeOf(dirs, n) == IF n \in DOMAIN dirs THEN dirs[n] ELSE <<>>

\* rel="${p#/}"
StripLeadingSlash(r) ==
  IF Len(r) > 0 /\ r[1] = SLASH THEN SubSeq(r, 2, Len(r)) ELSE r

\* a path one of whose components starts with a dot: filter line "- .*"
IsDotPath(p) ==
  \/ Len(p) > 0 /\ p[1] = DOT
  \/ \E i \in 1..(Len(p) - 1) : p[i] = SLASH /\ p[i + 1] = DOT

\* filter lines "P /rule" and "- /rule": anchored at the transfer root; a
\* rule with a trailing slash matches a directory only
FilterRuleMatches(p, r) ==
  LET body == StripTrailingSlashes(StripLeadingSlash(r))
  IN  IF EndsWithSlash(r)
        THEN StartsWith(p, body \o <<SLASH>>)
        ELSE p = body \/ StartsWith(p, body \o <<SLASH>>)

\* FILTER A: what Phase A neither transfers nor deletes
FilterAExcludes(p, rules) ==
  \/ \E i \in 1..Len(rules) : FilterRuleMatches(p, rules[i])
  \/ IsDotPath(p)

\* rsync -a --delete --filter='. FILTER' RELEASE/ WEBROOT/
PhaseATree(dest, release, rules) ==
  LET sent == {p \in release : ~FilterAExcludes(p, rules)}
      kept == {p \in DOMAIN dest : FilterAExcludes(p, rules)}
  IN  [p \in sent \cup kept |-> IF p \in sent THEN "rel" ELSE dest[p]]

\* Phase B source test: test -d src (directory rule) / test -f src (file rule)
PhaseBSources(release, r) ==
  LET rel == StripLeadingSlash(r)
  IN  IF EndsWithSlash(rel)
        THEN {p \in release : StartsWith(p, StripTrailingSlashes(rel) \o <<SLASH>>)}
        ELSE {p \in release : p = rel}

\* rsync --ignore-existing per directory rule, cp -n per file rule
PhaseBTree(dest, release, rules) ==
  LET added == {p \in release : /\ p \notin DOMAIN dest
                                /\ \E i \in 1..Len(rules) :
                                     p \in PhaseBSources(release, rules[i])}
  IN  [p \in DOMAIN dest \cup added |-> IF p \in added THEN "rel" ELSE dest[p]]

ShCall(op, target, ph) ==
  [op |-> op, target |-> target, phase |-> ph, dry |-> shCfg.dry]

\* the remote commands of the Phase B loop, rule by rule
RECURSIVE PhaseBCalls(_, _)
PhaseBCalls(rules, release) ==
  IF rules = <<>> THEN <<>>
  ELSE LET r == Head(rules)
           rel == StripLeadingSlash(r)
           dst == StripTrailingSlashes(rel)
           here ==
             IF PhaseBSources(release, r) = {} THEN <<>>
             ELSE IF EndsWithSlash(rel)
               THEN <<ShCall("mkdir", dst, "B"), ShCall("rsync", dst, "B")>>
               ELSE IF shCfg.dry THEN <<>> ELSE <<ShCall("cp", dst, "B")>>
       IN  here \o PhaseBCalls(Tail(rules), release)

\* ls -1t "$BACKUP_DIR"/"$BACKUP_PREFIX"-*.tar.gz
ListOwn(archives) == SelectSeq(archives, LAMBDA a : a.own)

\* variant: the loop removes the newest archives and keeps the oldest
Retain_KeepsOldest(archives, retain) ==
  LET listed == ListOwn(archives)
      n == Len(listed)
      doomed == {listed[i] : i \in 1..(n - Min(n, retain))}
  IN  SelectSeq(archives, LAMBDA a : a \notin doomed)

\* the retention loop: rm -f every listed archive at a position > BACKUP_RETAIN
Retain(archives, retain) ==
  LET listed == ListOwn(archives)
      doomed == {listed[i] : i \in {j \in 1..Len(listed) : j > retain}}
  IN  SelectSeq(archives, LAMBDA a : a \notin doomed)

\* die(): message and exit 1
die(step) ==
  /\ shpc' = "died"
  /\ shExit' = 1
  /\ shDiedAt' = step

\* uploadViaSSH: the optional Node-side confirmation before the script starts
NodeConfirm ==
  /\ shpc = "node"
  /\ LET g == shCfg.gate
     IN  IF g.confirm # "never" /\ g.interactive /\ (g.confirm = "always" \/ ~g.yes)
           THEN \E ok \in BOOLEAN :
                  IF ok
                    THEN /\ shpc' = "guard"
                         /\ shCfg' = [shCfg EXCEPT !.gate.yes = TRUE]
                         /\ UNCHANGED shDiedAt
                    ELSE /\ shpc' = "refused"
                         /\ shDiedAt' = "node"
                         /\ UNCHANGED shCfg
           ELSE IF g.confirm # "never" /\ ~g.interactive /\ ~g.yes
             THEN /\ shpc' = "refused"
                  /\ shDiedAt' = "node"
                  /\ UNCHANGED shCfg
             ELSE /\ shpc' = "guard"
                  /\ UNCHANGED <<shCfg, shDiedAt>>
  /\ UNCHANGED <<spVars, syncVars, shDirs, shBackups, shArchive, shTmp, shLog, shExit,
                 shBackupMade, shHealth, shRollback>>

\* upload.sh: non-interactive guard and prompt
ScriptGuard ==
  /\ shpc = "guard"
  /\ LET g == shCfg.gate
     IN  IF ~g.interactive /\ ~g.yes
           THEN die("guard")
           ELSE IF ~g.yes
             THEN \E ans \in BOOLEAN :
                    IF ans
                      THEN shpc' = "precheck" /\ UNCHANGED <<shExit, shDiedAt>>
                      ELSE shpc' = "died" /\ shExit' = 130 /\ shDiedAt' = "guard"
             ELSE shpc' = "precheck" /\ UNCHANGED <<shExit, shDiedAt>>
  /\ UNCHANGED <<spVars, syncVars, shCfg, shDirs, shBackups, shArchive, shTmp, shLog,
                 shBackupMade, shHealth, shRollback>>

\* remote prechecks: echo ok, mkdir -p REMOTE_TMP, test -d WEBROOT
Prechecks ==
  /\ shpc = "precheck"
  /\ shTmp' = shTmp \cup {"tmpdir"}
  /\ IF shCfg.rootName \in DOMAIN shDirs
       THEN shpc' = "backup" /\ UNCHANGED <<shExit, shDiedAt>>
       ELSE die("precheck")
  /\ UNCHANGED <<spVars, syncVars, shCfg, shDirs, shBackups, shArchive, shLog,
                 shBackupMade, shHealth, shRollback>>

\* the first remote command fails
ConnectivityFails ==
  /\ shpc = "precheck"
  /\ die("precheck")
  /\ UNCHANGED <<spVars, syncVars, shCfg, shDirs, shBackups, shArchive, shTmp, shLog,
                 shBackupMade, shHealth, shRollback>>

\* BACKUP: tar of ${WEBROOT%/*}/public_html, then the retention loop
Backup ==
  /\ shpc = "backup"
  /\ IF shCfg.dry
       THEN UNCHANGED <<shBackups, shArchive, shBackupMade>>
       ELSE /\ PUBLIC_HTML \in DOMAIN shDirs
            /\ shArchive' = shDirs[PUBLIC_HTML]
            /\ shBackups' = Retain(<<CurArchive>> \o shBackups, shCfg.retain)
            /\ shBackupMade' = TRUE
  /\ shpc' = "upload"
  /\ UNCHANGED <<spVars, syncVars, shCfg, shDirs, shTmp, shLog, shExit, shDiedAt,
                 shHealth, shRollback>>

\* variant: a failed backup does not end the run
BackupFails_Continues ==
  /\ shpc = "backup"
  /\ ~shCfg.dry
  /\ shpc' = "upload"
  /\ UNCHANGED <<spVars, syncVars, shCfg, shDirs, shBackups, shArchive, shTmp, shLog,
                 shExit, shDiedAt, shBackupMade, shHealth, shRollback>>

\* the remote backup script exits non-zero (no public_html beside the
\* webroot, or tar/mkdir failing): set -e ends the run
BackupFails ==
  /\ shpc = "backup"
  /\ ~shCfg.dry
  /\ die("backup")
  /\ UNCHANGED <<spVars, syncVars, shCfg, shDirs, shBackups, shArchive, shTmp, shLog,
                 shBackupMade, shHealth, shRollback>>

\* UPLOAD & UNPACK and the filter file; not guarded by DRY_RUN
UploadAndUnpack ==
  /\ shpc = "upload"
  /\ shTmp' = shTmp \cup {"zip", "release", "filter"}
  /\ shpc' = "phaseA"
  /\ UNCHANGED <<spVars, syncVars, shCfg, shDirs, shBackups, shArchive, shLog, shExit,
                 shDiedAt, shBackupMade, shHealth, shRollback>>

UploadAndUnpackFails ==
  /\ shpc = "upload"
  /\ die("upload")
  /\ UNCHANGED <<spVars, syncVars, shCfg, shDirs, shBackups, shArchive, shTmp, shLog,
                 shBackupMade, shHealth, shRollback>>

\* Phase A: mkdir -p WEBROOT && rsync [--dry-run] -a --delete
PhaseA ==
  /\ shpc = "phaseA"
  /\ shLog' = shLog \o <<ShCall("mkdir", <<>>, "A"), ShCall("rsync", <<>>, "A")>>
  /\ shDirs' = IF shCfg.dry THEN shDirs
               ELSE PutDir(shDirs, shCfg.rootName,
                           PhaseATree(TreeOf(shDirs, shCfg.rootName),
                                      shCfg.release, shCfg.preserve))
  /\ shpc' = "phaseB"
  /\ UNCHANGED <<spVars, syncVars, shCfg, shBackups, shArchive, shTmp, shExit,
                 shDiedAt, shBackupMade, shHealth, shRollback>>

\* the Phase A command exits non-zero: timeit returns it and set -e ends
\* the run
PhaseAFails ==
  /\ shpc = "phaseA"
  /\ die("phaseA")
  /\ UNCHANGED <<spVars, syncVars, shCfg, shDirs, shBackups, shArchive, shTmp, shLog,
                 shBackupMade, shHealth, shRollback>>

\* Phase B loop and the best-effort chown
PhaseB ==
  /\ shpc = "phaseB"
  /\ shLog' = shLog \o PhaseBCalls(shCfg.preserve, shCfg.release)
                    \o (IF shCfg.dry THEN <<>> ELSE <<ShCall("chown", <<>>, "own")>>)
  /\ shDirs' = IF shCfg.dry THEN shDirs
               ELSE PutDir(shDirs, shCfg.rootName,
                           PhaseBTree(TreeOf(shDirs, shCfg.rootName),
                                      shCfg.release, shCfg.preserve))
  /\ shpc' = IF shCfg.dry THEN "posthooks" ELSE "health"
  /\ UNCHANGED <<spVars, syncVars, shCfg, shBackups, shArchive, shTmp, shExit,
                 shDiedAt, shBackupMade, shHealth, shRollback>>

\* mkdir -p or rsync of the first directory rule found in the release exits
\* non-zero: set -e ends the run (a failing test -d/-f only skips the rule,
\* a failing cp -n is ignored)
PhaseBFails ==
  /\ shpc = "phaseB"
  /\ \E i \in 1..Len(shCfg.preserve) :
       /\ EndsWithSlash(StripLeadingSlash(shCfg.preserve[i]))
       /\ PhaseBSources(shCfg.release, shCfg.preserve[i]) # {}
  /\ die("phaseB")
  /\ UNCHANGED <<spVars, syncVars, shCfg, shDirs, shBackups, shArchive, shTmp, shLog,
                 shBackupMade, shHealth, shRollback>>

\* healthcheck returns 0 (also when none is configured): cleanup tmp
HealthcheckPasses ==
  /\ shpc = "health"
  /\ shHealth' = "pass"
  /\ shTmp' = shTmp \ {"zip", "filter", "release"}
  /\ shpc' = "posthooks"
  /\ UNCHANGED <<spVars, syncVars, shCfg, shDirs, shBackups, shArchive, shLog, shExit,
                 shDiedAt, shBackupMade, shRollback>>

\* variant: the temp files are removed after a failed healthcheck as well
HealthcheckFails_CleansUp ==
  /\ shpc = "health"
  /\ shHealth' = "fail"
  /\ shTmp' = shTmp \ {"zip", "filter", "release"}
  /\ shpc' = IF shCfg.rollbackOnFail THEN "rollback" ELSE "posthooks"
  /\ UNCHANGED <<spVars, syncVars, shCfg, shDirs, shBackups, shArchive, shLog,
                 shExit, shDiedAt, shBackupMade, shRollback>>

\* variant: a failed healthcheck rolls back whatever ROLLBACK_ON_FAIL says
HealthcheckFails_AlwaysRollsBack ==
  /\ shpc = "health"
  /\ shHealth' = "fail"
  /\ shpc' = "rollback"
  /\ UNCHANGED <<spVars, syncVars, shCfg, shDirs, shBackups, shArchive, shTmp, shLog,
                 shExit, shDiedAt, shBackupMade, shRollback>>

\* healthcheck returns non-zero
HealthcheckFails ==
  /\ shpc = "health"
  /\ shHealth' = "fail"
  /\ shpc' = IF shCfg.rollbackOnFail THEN "rollback" ELSE "posthooks"
  /\ UNCHANGED <<spVars, syncVars, shCfg, shDirs, shBackups, shArchive, shTmp, shLog,
                 shExit, shDiedAt, shBackupMade, shRollback>>

\* rollback(), first command: mv WEBROOT FAILED_DIR
RollbackMove ==
  /\ shpc = "rollback"
  /\ shDirs' = PutDir(RemoveDir(shDirs, shCfg.rootName), FAILED_DIR,
                      shDirs[shCfg.rootName])
  /\ shLog' = shLog \o <<ShCall("mv", <<>>, "rollback")>>
  /\ shRollback' = "moved"
  /\ shpc' = "rollbackTar"
  /\ UNCHANGED <<spVars, syncVars, shCfg, shBackups, shArchive, shTmp, shExit,
                 shDiedAt, shBackupMade, shHealth>>

\* rollback(), then: mkdir -p parent && tar -C parent -xzf BACKUP_PATH,
\* and rm -rf FAILED_DIR unless KEEP_FAILED_DIR
RollbackExtract ==
  /\ shpc = "rollbackTar"
  /\ CurArchive \in SeqToSet(shBackups)
  /\ LET restored == PutDir(shDirs, PUBLIC_HTML,
                            Overlay(TreeOf(shDirs, PUBLIC_HTML), shArchive))
     IN  shDirs' = IF shCfg.keepFailed THEN restored
                   ELSE RemoveDir(restored, FAILED_DIR)
  /\ shLog' = shLog \o <<ShCall("tar", <<>>, "rollback")>>
  /\ shRollback' = "restored"
  /\ shpc' = "posthooks"
  /\ UNCHANGED <<spVars, syncVars, shCfg, shBackups, shArchive, shTmp, shExit,
                 shDiedAt, shBackupMade, shHealth>>

\* tar cannot open BACKUP_PATH: "rollback failed. Manual intervention required."
RollbackExtractFails ==
  /\ shpc = "rollbackTar"
  /\ CurArchive \notin SeqToSet(shBackups)
  /\ shRollback' = "failed"
  /\ die("rollback")
  /\ UNCHANGED <<spVars, syncVars, shCfg, shDirs, shBackups, shArchive, shTmp, shLog,
                 shBackupMade, shHealth>>

\* post-hooks and ok "Done."
Done ==
  /\ shpc = "posthooks"
  /\ shpc' = "done"
  /\ shExit' = 0
  /\ UNCHANGED <<spVars, syncVars, shCfg, shDirs, shBackups, shArchive, shTmp, shLog,
                 shDiedAt, shBackupMade, shHealth, shRollback>>

NextShell ==
  \/ NodeConfirm
  \/ ScriptGuard
  \/ Prechecks
  \/ ConnectivityFails
  \/ Backup
  \/ BackupFails
  \/ UploadAndUnpack
  \/ UploadAndUnpackFails
  \/ PhaseA
  \/ PhaseAFails
  \/ PhaseB
  \/ PhaseBFails
  \/ HealthcheckPasses
  \/ HealthcheckFails
  \/ RollbackMove
  \/ RollbackExtract
  \/ RollbackExtractFails
  \/ Done

SpecShell == InitShell /\ [][NextShell]_vars


\* ------------------------------------------------------------------------
\* Properties of the shell transport
\* ------------------------------------------------------------------------

\* the script has passed `test -d WEBROOT`
PastPrechecks ==
  /\ shpc \notin {"idle", "node", "refused", "guard", "precheck"}
  /\ shDiedAt \notin {"node", "guard", "precheck"}

WebrootPresent == shCfg.rootName \in DOMAIN shDirs

SyncIssued == \E i \in 1..Len(shLog) : shLog[i].phase \in {"A", "B"}

\* C4: in a non-dry-run shell deploy with rollback-on-fail enabled, once the
\* health check has failed and the rollback step has returned, the webroot
\* holds exactly the paths and bytes it held before the run began.
C4_RollbackRestoresWebroot ==
  (/\ ~shCfg.dry
   /\ shCfg.rollbackOnFail
   /\ shHealth = "fail"
   /\ shRollback \in {"restored", "failed"})
    => /\ WebrootPresent
       /\ shDirs[shCfg.rootName] = shCfg.dirs0[shCfg.rootName]

\* C8: in a non-dry-run shell deploy a Phase A or Phase B command has been
\* issued against the webroot only if the backup step of this run returned
\* success before it; when the backup step fails the script has died with no
\* command issued against the webroot and the directories as they were.
C8_NoSyncWithoutBackup ==
  ~shCfg.dry =>
    /\ SyncIssued => shBackupMade
    /\ shpc \in {"upload", "phaseA", "phaseB", "health"} => shBackupMade
    /\ shDiedAt = "backup" => /\ shpc = "died"
                              /\ shLog = <<>>
                              /\ shDirs = shCfg.dirs0

\* a live run whose backup step succeeded and whose Phase A changed the webroot
C8_Witness ==
  /\ ~shCfg.dry
  /\ shBackupMade
  /\ SyncIssued
  /\ WebrootPresent
  /\ shDirs[shCfg.rootName] # shCfg.dirs0[shCfg.rootName]

\* C9: from the moment the prechecks have found the webroot directory, a
\* directory exists at the webroot path in every state of the deploy,
\* rollback included.
C9_WebrootAlwaysPresent == PastPrechecks => WebrootPresent

\* C14: with confirm mode never a shell deploy is never stopped at the
\* confirmation stage: neither uploadViaSSH nor the guard of upload.sh
\* refuses the run or asks for an answer that can abort it.
C14_NeverProceedsUnconditionally ==
  shCfg.gate.confirm = "never" => shpc # "refused" /\ shDiedAt # "guard"

\* the first n elements of a sequence
Prefix(seq, n) == SubSeq(seq, 1, Min(Len(seq), n))

\* C16: once the backup step of a shell deploy has succeeded, BACKUP_DIR
\* holds at most BACKUP_RETAIN archives of the prefix, they are exactly the
\* newest BACKUP_RETAIN of the archives of the prefix including the new one,
\* and the archives of other prefixes are all still there.
C16_RetentionKeepsNewest ==
  shBackupMade =>
    /\ Len(ListOwn(shBackups)) <= shCfg.retain
    /\ ListOwn(shBackups) =
         Prefix(<<CurArchive>> \o ListOwn(shCfg.backups0), shCfg.retain)
    /\ SelectSeq(shBackups, LAMBDA a : ~a.own) =
         SelectSeq(shCfg.backups0, LAMBDA a : ~a.own)

\* two older archives and one of another site were there, one is to be kept
C16_Witness ==
  /\ shBackupMade
  /\ shCfg.retain = 1
  /\ Len(shCfg.backups0) = 3
  /\ shBackups = <<CurArchive, OtherArchive>>

\* positions of the log entries of one phase
LogAt(ph) == {i \in 1..Len(shLog) : shLog[i].phase = ph}
\* Phase A has run its rsync; Phase B has run to its end (the chown follows)
PhaseADone == \E i \in LogAt("A") : shLog[i].op = "rsync"
PhaseBDone == LogAt("own") # {}
\* zip, filter and release directory were uploaded and have been removed
CleanedUp ==
  /\ shpc \in {"posthooks", "done"}
  /\ shTmp \cap {"zip", "filter", "release"} = {}
RollbackEntered == shpc \in {"rollback", "rollbackTar"} \/ shRollback # "none"
Before(X, Y) == \A i \in X, j \in Y : i < j

DeployedTree ==
  PhaseBTree(PhaseATree(TreeOf(shCfg.dirs0, shCfg.rootName), shCfg.release,
                        shCfg.preserve),
             shCfg.release, shCfg.preserve)

\* C19: after a failed health check with ROLLBACK_ON_FAIL off nothing is
\* rolled back: the webroot holds what the deploy put there, the backup
\* directory and the archive are as the backup step left them, and the zip,
\* the filter file and the release directory stay on the server.
C19_FailedCheckWithoutRollback ==
  shHealth = "fail" /\ ~shCfg.rollbackOnFail =>
    /\ shRollback = "none"
    /\ LogAt("rollback") = {}
    /\ shpc \in {"posthooks", "done"}
    /\ shDirs = PutDir(shCfg.dirs0, shCfg.rootName, DeployedTree)
    /\ shBackups = Retain(<<CurArchive>> \o shCfg.backups0, shCfg.retain)
    /\ shArchive = shCfg.dirs0[PUBLIC_HTML]
    /\ {"tmpdir", "zip", "filter", "release"} \subseteq shTmp

\* the run ended after a failed check on a webroot that the deploy changed
C19_Witness ==
  /\ shpc = "done"
  /\ shHealth = "fail"
  /\ ~shCfg.rollbackOnFail
  /\ shDirs # shCfg.dirs0
  /\ CurArchive \in SeqToSet(shBackups)

\* C18: taking the snapshot and rolling back are renames only: no archive
\* is written or extracted and no file is copied for either.
C18_RollbackIsRenameSwap ==
  /\ shBackupMade => CurArchive \notin SeqToSet(shBackups) /\ shArchive = <<>>
  /\ \A i \in LogAt("rollback") : shLog[i].op = "mv"

\* ---------------------------------------------------------------------
\* The shell restore: restoreViaSSH and shell/restore.sh
\* ---------------------------------------------------------------------

\* BACKUP_NAME: 0 when not given, else the archive of that id
BackupNameInputs == 0..MaxBackups
\* what the operator types at "Type YES to proceed"
RestoreAnswers == {"YES", "yes", ""}
\* content of public_html inside the archives of BACKUP_DIR
ArchiveTree(A) == [p \in A |-> "bak"]

\* restoreViaSSH: the environment handed to restore.sh. The preserve paths
\* of the options are not part of it. ./dist/build.zip (ZIP_PATH of the
\* deploy script appended to restore.sh) is taken to be absent.
InitRestore ==
  /\ SpawnIdle
  /\ SyncIdle
  /\ \E d, f \in BOOLEAN, nm \in WebrootNames, rules \in ShRuleLists,
        A \in SUBSET ShWebrootUniverse, W \in SUBSET ShWebrootUniverse,
        k \in 0..MaxBackups, bn \in BackupNameInputs, there \in BOOLEAN :
       /\ Cardinality(A) <= MaxRemote
       /\ Cardinality(W) <= MaxRemote
       /\ ~there => W = {}
       /\ shDirs = [n \in (IF there THEN {nm} ELSE {}) |-> [p \in W |-> "old"]]
       /\ shCfg = [dry |-> d, force |-> f, rootName |-> nm,
                   preserve |-> rules, backupName |-> bn, selected |-> 0,
                   archive |-> ArchiveTree(A), dirs0 |-> shDirs,
                   backups0 |-> OldArchives(k)]
       /\ shBackups = OldArchives(k)
  /\ shArchive = <<>>
  /\ shTmp = {}
  /\ shpc = "rpreflight"
  /\ shLog = <<>>
  /\ shExit = -1
  /\ shDiedAt = ""
  /\ shBackupMade = FALSE
  /\ shHealth = "none"
  /\ shRollback = "none"

\* preflight: ssh echo ok, test -d WEBROOT, test -d BACKUP_DIR
RestorePreflight ==
  /\ shpc = "rpreflight"
  /\ IF shCfg.rootName \in DOMAIN shDirs
       THEN shpc' = "rpick" /\ UNCHANGED <<shExit, shDiedAt>>
       ELSE die("preflight")
  /\ UNCHANGED <<spVars, syncVars, shCfg, shDirs, shBackups, shArchive, shTmp, shLog,
                 shBackupMade, shHealth, shRollback>>

RestorePreflightFails ==
  /\ shpc = "rpreflight"
  /\ die("preflight")
  /\ UNCHANGED <<spVars, syncVars, shCfg, shDirs, shBackups, shArchive, shTmp, shLog,
                 shBackupMade, shHealth, shRollback>>

\* BACKUP_NAME, or the first line of ls -1t BACKUP_DIR/BACKUP_PREFIX-*.tar.gz
RestorePick ==
  /\ shpc = "rpick"
  /\ IF shCfg.backupName # 0
       THEN /\ shCfg' = [shCfg EXCEPT !.selected = shCfg.backupName]
            /\ shpc' = "rconfirm"
            /\ UNCHANGED <<shExit, shDiedAt>>
       ELSE IF ListOwn(shBackups) = <<>>
         THEN die("pick") /\ UNCHANGED shCfg
         ELSE /\ shCfg' = [shCfg EXCEPT !.selected = Head(ListOwn(shBackups)).id]
              /\ shpc' = "rconfirm"
              /\ UNCHANGED <<shExit, shDiedAt>>
  /\ UNCHANGED <<spVars, syncVars, shDirs, shBackups, shArchive, shTmp, shLog,
                 shBackupMade, shHealth, shRollback>>

\* "Type YES to proceed" unless FORCE=1
RestoreConfirm ==
  /\ shpc = "rconfirm"
  /\ IF shCfg.force
       THEN shpc' = "rextract" /\ UNCHANGED <<shExit, shDiedAt>>
       ELSE \E ans \in RestoreAnswers :
              IF ans = "YES"
                THEN shpc' = "rextract" /\ UNCHANGED <<shExit, shDiedAt>>
                ELSE die("confirm")
  /\ UNCHANGED <<spVars, syncVars, shCfg, shDirs, shBackups, shArchive, shTmp, shLog,
                 shBackupMade, shHealth, shRollback>>

SelectedThere ==
  \E i \in 1..Len(shBackups) :
    shBackups[i].own /\ shBackups[i].id = shCfg.selected

\* remote script: mkdir -p REMOTE_TMP, tar -C REMOTE_TMP -xzf BACKUP_PATH
\* (not in a dry run), test -d EXTRACTED
RestoreExtract ==
  /\ shpc = "rextract"
  /\ shCfg.dry \/ SelectedThere
  /\ shTmp' = shTmp \cup {"tmpdir"} \cup (IF shCfg.dry THEN {} ELSE {"extracted"})
  /\ shArchive' = IF shCfg.dry THEN shArchive ELSE shCfg.archive
  /\ shLog' = shLog \o (IF shCfg.dry THEN <<>>
                        ELSE <<ShCall("tar", <<>>, "restore")>>)
  /\ shpc' = "rsync"
  /\ UNCHANGED <<spVars, syncVars, shCfg, shDirs, shBackups, shExit, shDiedAt,
                 shBackupMade, shHealth, shRollback>>

\* tar cannot open the archive that BACKUP_NAME names
RestoreExtractFails ==
  /\ shpc = "rextract"
  /\ ~shCfg.dry /\ ~SelectedThere
  /\ shTmp' = shTmp \cup {"tmpdir"}
  /\ die("extract")
  /\ UNCHANGED <<spVars, syncVars, shCfg, shDirs, shBackups, shArchive, shLog,
                 shBackupMade, shHealth, shRollback>>

\* rsync [--dry-run] -a --delete --delete-delay --force EXTRACTED/ WEBROOT/
\* with no filter: the webroot becomes the extracted tree. In a dry run
\* EXTRACTED does not exist and rsync exits non-zero.
RestoreSync ==
  /\ shpc = "rsync"
  /\ shLog' = shLog \o <<ShCall("rsync", <<>>, "restore")>>
  /\ IF shCfg.dry
       THEN die("sync") /\ UNCHANGED shDirs
       ELSE /\ shDirs' = PutDir(shDirs, shCfg.rootName, shArchive)
            /\ shpc' = "rcleanup"
            /\ UNCHANGED <<shExit, shDiedAt>>
  /\ UNCHANGED <<spVars, syncVars, shCfg, shBackups, shArchive, shTmp, shBackupMade,
                 shHealth, shRollback>>

\* chown (best-effort) and rm -rf REMOTE_TMP
RestoreCleanup ==
  /\ shpc = "rcleanup"
  /\ shTmp' = {}
  /\ shLog' = shLog \o <<ShCall("chown", <<>>, "own")>>
  /\ shpc' = "rtrailer"
  /\ UNCHANGED <<spVars, syncVars, shCfg, shDirs, shBackups, shArchive, shExit,
                 shDiedAt, shBackupMade, shHealth, shRollback>>

\* the deploy script that follows in the same file: "ZIP not found", exit 1
RestoreTrailer ==
  /\ shpc = "rtrailer"
  /\ die("trailer")
  /\ UNCHANGED <<spVars, syncVars, shCfg, shDirs, shBackups, shArchive, shTmp, shLog,
                 shBackupMade, shHealth, shRollback>>

NextRestore ==
  \/ RestorePreflight
  \/ RestorePreflightFails
  \/ RestorePick
  \/ RestoreConfirm
  \/ RestoreExtract
  \/ RestoreExtractFails
  \/ RestoreSync
  \/ RestoreCleanup
  \/ RestoreTrailer

SpecRestore == InitRestore /\ [][NextRestore]_vars

IsPreservedSh(p) ==
  \E i \in 1..Len(shCfg.preserve) : FilterRuleMatches(p, shCfg.preserve[i])

\* C15: a restore never deletes or overwrites a remote file that matches a
\* preserve rule: every such file of the webroot is still there, with its
\* bytes, whatever the restore has done.
C15_RestoreKeepsPreserved ==
  \A p \in DOMAIN TreeOf(shCfg.dirs0, shCfg.rootName) :
    IsPreservedSh(p) =>
      /\ p \in DOMAIN TreeOf(shDirs, shCfg.rootName)
      /\ shDirs[shCfg.rootName][p] = shCfg.dirs0[shCfg.rootName][p]

\* ---------------------------------------------------------------------
\* Error handling, ordering and pruning in the FTP/SFTP flows
\* ---------------------------------------------------------------------

\* C21: when a list() call of listRemoteTree throws, the run fails there:
\* it does not go on to the deletes, uploads and prunes.
C21_ListFailureIsFatal ==
  [][(pc = "list" /\ faults' > faults) => pc' = "failed"]_vars

\* ---------------------------------------------------------------------
\* Webroot resolution of the FTP and SFTP transports
\* ---------------------------------------------------------------------
\* webroot values are sequences of path segments; <<"undefined">> is
\* undefined and <<>> the empty string. user and domain are strings, with
\* "undefined" for undefined.

\* handleUpload: const deriveWebroot = (user, domain) =>
\*   user && domain ? `/home/${user}/web/${domain}/public_html` : undefined
deriveWebroot(user, domain) ==
  IF user \notin {"undefined", ""} /\ domain \notin {"undefined", ""}
    THEN <<"home", user, "web", domain, "public_html">>
    ELSE <<"undefined">>

\* function deriveDefaultWebroot(user, domain): (user || "user").trim()
deriveDefaultWebroot(user, domain) ==
  <<"home", IF user \in {"undefined", ""} THEN "user" ELSE user, "web", domain,
    "public_html">>

\* opts.webroot as the caller hands it over: handleUpload fills it with
\* val("webroot") ?? rawTarget.webroot ?? deriveWebroot(user, domain)
optsWebroot(o) ==
  IF o.entry = "cli" /\ o.webroot = <<"undefined">>
    THEN deriveWebroot(o.user, o.domain)
    ELSE o.webroot

\* const resolvedWebroot = webroot ?? (domain ? deriveDefaultWebroot(user, domain) : undefined)
resolvedWebroot(o) ==
  IF optsWebroot(o) # <<"undefined">> THEN optsWebroot(o)
  ELSE IF o.domain \notin {"undefined", ""}
    THEN deriveDefaultWebroot(o.user, o.domain)
    ELSE <<"undefined">>

\* a run that starts at the resolution of the webroot; the options carry
\* webroot, user and domain besides the gate inputs
InitWebroot ==
  /\ SpawnIdle
  /\ ShellIdle
  /\ transport \in Transports
  /\ flow \in Flows
  /\ preservePaths = <<R_uploads>>
  /\ localFiles = SortedSeq({P_robots, P_ux})
  /\ concurrency \in ConcurrencyInputs
  /\ \E e \in {"cli", "api"}, w \in {<<"undefined">>, <<"srv", "www">>},
        u \in {"undefined", "alice"}, dm \in {"undefined", "", "example.com"} :
       gateIn = [confirm |-> "auto", interactive |-> TRUE, yes |-> FALSE,
                 replies |-> {<<"y">>, <<"n">>},
                 entry |-> e, webroot |-> w, user |-> u, domain |-> dm]
  /\ rfiles = [p \in {P_stale, P_df} |-> "old"]
  /\ rdirs = DirsOf({P_stale, P_df})
  /\ rootExists = TRUE
  /\ run = 1
  /\ dryRun \in BOOLEAN
  /\ pc = "resolve"
  /\ gate = "pending"
  /\ asked = <<>>
  /\ connected = FALSE
  /\ tmpRoot = FALSE
  /\ cwd = <<>>
  /\ remoteTree = EmptyTree
  /\ pendingDel = <<>>
  /\ relFiles = <<>>
  /\ idx = 0
  /\ active = {}
  /\ limit = 1
  /\ settled = "idle"
  /\ idxAtReject = -1
  /\ phase = "A"
  /\ pendingPrune = <<>>
  /\ calls = <<>>
  /\ faults = 0
  /\ history = <<>>

\* if (!resolvedWebroot) throw new Error("webroot not provided ...");
\* otherwise the ZIP is unpacked (the archive extracted) and the run goes on
ResolveWebroot ==
  /\ pc = "resolve"
  /\ IF resolvedWebroot(gateIn) \in {<<"undefined">>, <<>>}
       THEN pc' = "failed" /\ UNCHANGED tmpRoot
       ELSE /\ pc' = StartPc(transport, flow)
            /\ tmpRoot' = (StartPc(transport, flow) = "confirm")
  /\ UNCHANGED <<spVars, shVars, asked, cfgVars, fsVars, poolVars, run, dryRun, gate,
                 connected, cwd, remoteTree, pendingDel, pendingPrune, calls,
                 faults, history>>

NextWebroot == ResolveWebroot \/ Next

SpecWebroot == InitWebroot /\ [][NextWebroot]_vars

\* C22: an FTP run whose options carry no webroot never gets past the
\* resolution of the webroot: it fails there, and no connection is opened and
\* no remote call is made, whatever domain and user are configured.
C22_FtpNeedsExplicitWebroot ==
  (transport = "ftp" /\ gateIn.webroot = <<"undefined">>) =>
    /\ pc \in {"resolve", "failed"}
    /\ ~connected
    /\ calls = <<>>

\* ---------------------------------------------------------------------
\* The shell deploy on releases and webroots that hold a dotfile
\* ---------------------------------------------------------------------
P_ht == <<".", "h">>               \* .htaccess

InitParity ==
  /\ SpawnIdle
  /\ SyncIdle
  /\ \E d, rb, there \in BOOLEAN, rt \in {0, 1}, g \in ShGateCases,
        rules \in ShRuleLists,
        L \in SUBSET {P_robots, P_ux, P_ht}, W \in SUBSET {P_stale, P_robots, P_ht} :
       /\ Cardinality(L) <= MaxLocal
       /\ Cardinality(W) <= MaxRemote
       /\ ~there => W = {}
       /\ shDirs = [n \in (IF there THEN {PUBLIC_HTML} ELSE {}) |-> [p \in W |-> "old"]]
       /\ shCfg = [dry |-> d, retain |-> rt, rootName |-> PUBLIC_HTML,
                   rollbackOnFail |-> rb, keepFailed |-> FALSE, gate |-> g,
                   preserve |-> rules, release |-> L, dirs0 |-> shDirs,
                   backups0 |-> <<>>]
  /\ shBackups = <<>>
  /\ shArchive = <<>>
  /\ shTmp = {}
  /\ shpc = "node"
  /\ shLog = <<>>
  /\ shExit = -1
  /\ shDiedAt = ""
  /\ shBackupMade = FALSE
  /\ shHealth = "none"
  /\ shRollback = "none"

SpecParity == InitParity /\ [][NextShell]_vars

\* the webroot after a complete SFTP deploy of `release` onto `dest`: the
\* files of toDelete are gone, those of localNonPreserve and newPreserve hold
\* the release copy, every other file is untouched
SftpOutcome(dest, release, rules) ==
  LET tree == [files |-> SortedSeq(DOMAIN dest), dirs |-> <<>>]
      local == SortedSeq(release)
      gone == SeqToSet(toDelete(local, tree, rules))
      put == SeqToSet(localNonPreserve(local, rules))
               \cup SeqToSet(newPreserve(local, tree, rules))
  IN  [p \in ((DOMAIN dest) \ gone) \cup put |->
         IF p \in put THEN "rel" ELSE dest[p]]

\* C23: a shell deploy that ended with a passed health check leaves the
\* webroot with the files, and the origin of each file, that an SFTP deploy
\* of the same release with the same preserve rules leaves, dotfiles included.
C23_ShellMatchesSftp ==
  (shpc = "done" /\ ~shCfg.dry /\ shHealth = "pass") =>
    TreeOf(shDirs, shCfg.rootName) =
      SftpOutcome(TreeOf(shCfg.dirs0, shCfg.rootName), shCfg.release,
                  shCfg.preserve)

\* ---------------------------------------------------------------------
\* Selection of the backup to restore: restore.sh and restoreViaSFTP
\* ---------------------------------------------------------------------
\* an archive of the prefix named by hand, e.g. <prefix>-final.tar.gz: its
\* name sorts after every time-stamped name of the prefix
NamedArchive == [id |-> MaxBackups + 2, own |-> TRUE]

\* the backup directory, newest first by modification time: the archives
\* that deploys left, and the hand-named archive at position j (0: absent)
BackupListing(k, j) ==
  IF j = 0 THEN OldArchives(k)
  ELSE SubSeq(OldArchives(k), 1, j - 1) \o <<NamedArchive>>
         \o SubSeq(OldArchives(k), j, Len(OldArchives(k)))

InitPick ==
  /\ SpawnIdle
  /\ SyncIdle
  /\ \E t \in {"ssh", "sftp"}, bn \in BackupNameInputs, k \in 0..MaxBackups :
       \E j \in 0..(Len(OldArchives(k)) + 1) :
         /\ shCfg = [dry |-> FALSE, via |-> t, backupName |-> bn, selected |-> 0]
         /\ shBackups = BackupListing(k, j)
         /\ shpc = IF t = "ssh" THEN "rpick" ELSE "spick"
  /\ shDirs = [n \in {PUBLIC_HTML} |-> [p \in {P_stale} |-> "old"]]
  /\ shArchive = <<>>
  /\ shTmp = {}
  /\ shLog = <<>>
  /\ shExit = -1
  /\ shDiedAt = ""
  /\ shBackupMade = FALSE
  /\ shHealth = "none"
  /\ shRollback = "none"

\* candidates.sort((a, b) => b.localeCompare(a))[0]: the greatest name
LastByName(archives) ==
  CHOOSE a \in SeqToSet(archives) : \A b \in SeqToSet(archives) : b.id <= a.id

\* restoreViaSFTP: list remoteBackupDir, keep the archives whose name starts
\* with the prefix, chosen = remoteBackupName || candidates[0]
SftpPick ==
  /\ shpc = "spick"
  /\ IF shCfg.backupName # 0
       THEN /\ shCfg' = [shCfg EXCEPT !.selected = shCfg.backupName]
            /\ shpc' = "sget"
            /\ UNCHANGED <<shExit, shDiedAt>>
       ELSE IF ListOwn(shBackups) = <<>>
         THEN die("pick") /\ UNCHANGED shCfg
         ELSE /\ shCfg' = [shCfg EXCEPT !.selected = LastByName(ListOwn(shBackups)).id]
              /\ shpc' = "sget"
              /\ UNCHANGED <<shExit, shDiedAt>>
  /\ UNCHANGED <<spVars, syncVars, shDirs, shBackups, shArchive, shTmp, shLog,
                 shBackupMade, shHealth, shRollback>>

\* await sftp.fastGet(remoteFile, tmpFile): throws when the file is missing
SftpGet ==
  /\ shpc = "sget"
  /\ IF SelectedThere
       THEN /\ shpc' = "rconfirm"
            /\ shTmp' = shTmp \cup {"download"}
            /\ UNCHANGED <<shExit, shDiedAt>>
       ELSE die("get") /\ UNCHANGED shTmp
  /\ UNCHANGED <<spVars, syncVars, shCfg, shDirs, shBackups, shArchive, shLog,
                 shBackupMade, shHealth, shRollback>>

NextPick ==
  \/ RestorePick
  \/ SftpPick
  \/ SftpGet

SpecPick == InitPick /\ [][NextPick]_vars

\* C24: the restore takes the archive of the given name when one is given;
\* otherwise the newest archive of the prefix in the backup directory; and
\* when no archive of the prefix is there it fails with the webroot untouched.
C24_PicksNamedOrNewest ==
  /\ shCfg.selected # 0 =>
       IF shCfg.backupName # 0 THEN shCfg.selected = shCfg.backupName
       ELSE shCfg.selected = Head(ListOwn(shBackups)).id
  /\ (shpc \notin {"rpick", "spick"} /\ shCfg.backupName = 0
        /\ ListOwn(shBackups) = <<>>) => shDiedAt = "pick"
  /\ shDirs = [n \in {PUBLIC_HTML} |-> [p \in {P_stale} |-> "old"]]

\* ---------------------------------------------------------------------
\* Order of deletes, uploads and prunes within a run
\* ---------------------------------------------------------------------
\* positions in the call log of the current run's calls with an op of `ops`
\* in a phase of `phs`
At(ops, phs) ==
  {i \in 1..Len(calls) :
     calls[i].run = run /\ calls[i].op \in ops /\ calls[i].phase \in phs}
DeleteOps == {"delete", "rmdirFallback", "announce_rm"}
UploadOps == {"mkdir", "put", "announce_up"}

\* C25: in a run, no upload is in flight while a delete is still to be
\* issued, every delete of the run precedes every upload of the run, every
\* Phase A upload precedes every Phase B upload, and a Phase B upload is in
\* flight only when no Phase A upload is.
C25_DeletesThenAThenB ==
  /\ pc \in {"confirm", "connect", "ensureRoot", "list", "delete"} =>
       active = {} /\ At(UploadOps, {"A", "B"}) = {}
  /\ pc \in {"awaitA", "phaseB", "awaitB", "prune", "done"} => pendingDel = <<>>
  /\ active # {} => pendingDel = <<>> /\ pc \in {"awaitA", "awaitB", "failed"}
  /\ \A i \in At(DeleteOps, {"A"}), j \in At(UploadOps, {"A", "B"}) : i < j
  /\ \A i \in At(UploadOps, {"A"}), j \in At(UploadOps, {"B"}) : i < j
  /\ pc \in {"phaseB", "prune", "done"} => active = {}
  /\ (pc = "awaitB" /\ ~dryRun) =>
       /\ active \subseteq SeqToSet(newPreserve(localFiles, remoteTree, preservePaths))
       /\ \A f \in SeqToSet(localNonPreserve(localFiles, preservePaths)) :
            \E i \in At({"put"}, {"A"}) : calls[i].path = f

\* a live run issued a delete, a Phase A upload and a Phase B upload
C25_Witness ==
  /\ pc = "done" /\ ~dryRun
  /\ At({"delete"}, {"A"}) # {}
  /\ At({"put"}, {"A"}) # {}
  /\ At({"put"}, {"B"}) # {}

\* C26: within a run no path is both deleted and uploaded: the paths of the
\* deletes (issued or announced) and the paths of the Phase A and Phase B
\* uploads (issued, announced or in flight) are disjoint, and so are the
\* planned delete list and the planned upload lists.
C26_DeletesDisjointFromUploads ==
  /\ \A i \in At(DeleteOps, {"A"}), j \in At({"put", "announce_up"}, {"A", "B"}) :
       calls[i].path # calls[j].path
  /\ \A i \in At(DeleteOps, {"A"}) : calls[i].path \notin active
  /\ pc \in {"delete", "awaitA", "awaitB"} =>
       SeqToSet(toDelete(localFiles, remoteTree, preservePaths))
         \cap (SeqToSet(localNonPreserve(localFiles, preservePaths))
                 \cup SeqToSet(newPreserve(localFiles, remoteTree, preservePaths)))
         = {}

\* a live run deleted a stale file and uploaded robots.txt over the remote
\* robots.txt, which no rule preserves
C26_Witness ==
  /\ pc = "done" /\ ~dryRun
  /\ P_robots \in Listed \cap Local /\ ~Preserved(P_robots)
  /\ At({"delete"}, {"A"}) # {}
  /\ \E j \in At({"put"}, {"A"}) : calls[j].path = P_robots

\* ---------------------------------------------------------------------
\* The preserve predicate under unusual rule lists
\* ---------------------------------------------------------------------
\* rule lists: none, an empty rule, "/", "//", "uploads//", "uploads"
\* without slash, and two rules in both orders
InitMatch ==
  /\ SpawnIdle
  /\ ShellIdle
  /\ transport \in Transports
  /\ flow = "deploy"
  /\ preservePaths \in {<<>>, << <<>> >>, << <<"/">> >>, << <<"/", "/">> >>,
                        << <<"u", "/", "/">> >>, << <<"u">> >>,
                        <<R_uploads, R_robots>>, <<R_robots, R_uploads>>}
  /\ localFiles = SortedSeq({P_robots, P_ux, <<"u", "2", "/", "x">>})
  /\ concurrency \in ConcurrencyInputs
  /\ gateIn = [confirm |-> "never", interactive |-> FALSE, yes |-> FALSE,
               replies |-> {}]
  /\ \E R \in {{P_stale, P_df}, {P_robots, P_ux}} :
       /\ rfiles = [p \in R |-> "old"]
       /\ rdirs = DirsOf(R)
  /\ rootExists = TRUE
  /\ \E d \in BOOLEAN : InitRun(d)

SpecMatch == InitMatch /\ [][Next]_vars

\* uploads, uploads/x.jpg, uploads2/x, robots.txt, stale.txt, d/f, uploads/
TestPaths ==
  {<<"u">>, P_ux, <<"u", "2", "/", "x">>, P_robots, P_stale, P_df, R_uploads}
Reverse(s) == [i \in 1..Len(s) |-> s[Len(s) + 1 - i]]
NormalRules == preserves(preservePaths)

\* C27 as stated: a path is preserved iff some rule matches it, in any order
\* of the rules; a rule ending in "/" matches exactly the paths that start
\* with the rule, any other rule only the identical path.
C27_MatchByRuleAsWritten ==
  \A p \in TestPaths :
    /\ Preserved(p) \in BOOLEAN
    /\ Preserved(p) = isPreservedRel(p, Reverse(preservePaths))
    /\ Preserved(p) <=>
         \E i \in 1..Len(NormalRules) :
           IF EndsWithSlash(NormalRules[i]) THEN StartsWith(p, NormalRules[i])
           ELSE p = NormalRules[i]

\* C27 (amended): as above, but a rule ending in "/" matches exactly the
\* paths that start with the rule once its run of trailing slashes is
\* reduced to a single "/".
C27_MatchByCollapsedRule ==
  \A p \in TestPaths :
    /\ Preserved(p) \in BOOLEAN
    /\ Preserved(p) = isPreservedRel(p, Reverse(preservePaths))
    /\ Preserved(p) <=>
         \E i \in 1..Len(NormalRules) :
           IF EndsWithSlash(NormalRules[i])
             THEN StartsWith(p, StripTrailingSlashes(NormalRules[i]) \o <<SLASH>>)
             ELSE p = NormalRules[i]
    /\ (R_uploads \in SeqToSet(NormalRules) /\ <<"u">> \notin SeqToSet(NormalRules)) =>
         Preserved(P_ux) /\ ~Preserved(<<"u">>) /\ ~Preserved(<<"u", "2", "/", "x">>)
    /\ NormalRules = << <<"u">> >> => ~Preserved(P_ux) /\ Preserved(<<"u">>)
    /\ NormalRules \in {<<>>, << <<>> >>, << <<"/">> >>} => ~Preserved(p)

\* a live run under the rule "uploads//" has ended and left the remote
\* uploads/x.jpg alone
C27_Witness ==
  /\ pc = "done" /\ ~dryRun
  /\ preservePaths = << <<"u", "/", "/">> >>
  /\ P_ux \in Listed /\ rfiles[P_ux] = "old"
  /\ At({"put"}, {"A", "B"}) # {}

\* ---------------------------------------------------------------------
\* Pruning
\* ---------------------------------------------------------------------
\* the pruning step has just issued an rmdir
RmdirIssued == pc = "prune" /\ Len(calls') = Len(calls) + 1

\* C28: pruning issues rmdir only for a directory outside preserved space
\* that the pruning step has just found empty (nothing lies below it at
\* the moment of the call), on FTP and on SFTP alike, and pruning removes
\* no file.
C28_RmdirOnlyOnEmptyDir ==
  [][RmdirIssued =>
       /\ calls'[Len(calls')].op = "rmdir"
       /\ ~isPreservedRel(Head(pendingPrune) \o <<SLASH>>, preservePaths)
       /\ IsEmptyDir(Resolve(Head(pendingPrune)))
       /\ rfiles' = rfiles]_vars


\* the listed directories outside preserved space
PrunableDirs ==
  {d \in SeqToSet(remoteTree.dirs) : ~isPreservedRel(d \o <<SLASH>>, preservePaths)}
Rmdirs == At({"rmdir"}, {"prune"})

\* C29: pruning visits the listed non-preserved directories deepest-first
\* (a directory is never visited before one of its listed descendants,
\* neither in what is left to visit nor in the rmdir calls made), and it
\* starts only after every delete of the run has been issued.
C29_DeepestFirstAfterDeletes ==
  /\ pc = "prune" =>
       /\ pendingDel = <<>> /\ active = {}
       /\ SeqToSet(PruneList) = (IF dryRun \/ flow # "deploy" THEN {} ELSE PrunableDirs)
       /\ \E k \in 1..(Len(PruneList) + 1) :
            pendingPrune = SubSeq(PruneList, k, Len(PruneList))
  /\ \A i, j \in 1..Len(pendingPrune) :
       pendingPrune[i] \in Ancestors(pendingPrune[j]) => j < i
  /\ \A i, j \in Rmdirs : calls[i].path \in Ancestors(calls[j].path) => j < i
  /\ \A i \in Rmdirs, k \in 1..Len(pendingPrune) :
       calls[i].path \notin Ancestors(pendingPrune[k])
  /\ \A i \in Rmdirs, j \in At(DeleteOps, {"A"}) : j < i
  /\ Rmdirs # {} => pendingDel = <<>> /\ pc \in {"prune", "done"}

\* a live run has deleted u/u/x and then removed u/u before u
C29_Witness ==
  /\ pc = "done"
  /\ \E h \in At({"delete"}, {"A"}), i, j \in Rmdirs :
       /\ calls[h].path = P_uux
       /\ calls[i].path = <<"u", "/", "u">> /\ calls[j].path = <<"u">>
       /\ h < i /\ i < j
  /\ <<"u">> \notin rdirs


\* C30: a step of the delete loop or of the prune loop never ends the run;
\* when the delete, its fallback or the rmdir fails, the run stays
\* connected and goes on with the rest of the list.
C30_CleanupFailureSwallowed ==
  [][(pc \in {"delete", "prune"}) =>
       (/\ pc' # "failed"
        /\ (faults' > faults) =>
             (/\ pc' = pc /\ connected' /\ tmpRoot' = tmpRoot
              /\ (pc = "delete" => pendingDel' = Tail(pendingDel))
              /\ (pc = "prune" => pendingPrune' = Tail(pendingPrune))))]_vars

\* a live run whose delete and fallback both failed has gone on to delete
\* the next file, upload and prune, and has ended successfully
C30_Witness ==
  /\ pc = "done" /\ ~connected
  /\ \E f \in At({"rmdirFallback"}, {"A"}) :
       /\ calls[f].path \in DOMAIN rfiles
       /\ \E d \in At({"delete"}, {"A"}) : d > f /\ calls[d].path \notin DOMAIN rfiles
       /\ \E u \in At({"put"}, {"A", "B"}) : u > f
       /\ \E r \in Rmdirs : r > f


\* ---------------------------------------------------------------------
\* Incomplete listings, retention and the backup of the run
\* ---------------------------------------------------------------------
\* the run has its listing and has not ended
Reconciling == pc \in {"delete", "awaitA", "phaseB", "awaitB", "prune"}

\* C31: a remote file that matches a preserve rule and is missing from the
\* listing of the run (its subtree was skipped) is neither overwritten nor
\* deleted by any step of the run.
C31_SkippedPreservedUntouched ==
  [][\A p \in DOMAIN rfiles :
       (Reconciling /\ Preserved(p) /\ p \notin Listed) =>
         (p \in DOMAIN rfiles' /\ rfiles'[p] = rfiles[p])]_vars


\* C32: once the backup step of a shell deploy has run (archive written,
\* retention loop done), the archive of this run is still in BACKUP_DIR,
\* whatever BACKUP_RETAIN and the archives found there.
C32_OwnBackupSurvivesRetention ==
  shBackupMade => CurArchive \in SeqToSet(shBackups)


\* ---------------------------------------------------------------------
\* Where uploads land, and the outcome of a deploy
\* ---------------------------------------------------------------------
\* an upload of the pool has just written a file on the server
UploadWrote == pc \in {"awaitA", "awaitB"} /\ rfiles' # rfiles
LastCall == calls'[Len(calls')]

\* C33: on FTP, an upload of the release file p writes <webroot>/p and
\* nothing else, whatever directories ensureDir has entered before.
C33_FtpPutLandsAtWebrootPath ==
  [][(transport = "ftp" /\ UploadWrote) =>
       /\ LastCall.op = "put"
       /\ DOMAIN rfiles' = DOMAIN rfiles \cup {LastCall.path}
       /\ rfiles'[LastCall.path] = "rel"
       /\ \A q \in DOMAIN rfiles \ {LastCall.path} : rfiles'[q] = rfiles[q]]_vars


\* the first run was a live deploy that ended successfully without a single
\* failed call, so its listing is the remote file set it started from
CleanFirstDeploy ==
  pc = "done" /\ run = 1 /\ ~dryRun /\ flow = "deploy" /\ faults = 0

\* C34: after such a deploy the remote files are the release's files and
\* the listed preserved files; every non-preserved remote file is a release
\* file with release content, and every listed preserved file has kept its
\* content.
C34_DeployOutcome ==
  CleanFirstDeploy =>
    /\ DOMAIN rfiles = Local \cup {p \in Listed : Preserved(p)}
    /\ \A p \in DOMAIN rfiles :
         ~Preserved(p) => (p \in Local /\ rfiles[p] = "rel")
    /\ \A p \in Listed : Preserved(p) => rfiles[p] = "old"


\* ---------------------------------------------------------------------
\* Result of a shell deploy
\* ---------------------------------------------------------------------
\* C35: the script exits with code 0 (and uploadViaSSH resolves) only if
\* the health check did not fail; a failed health check, rolled back or
\* not, ends in a failure result.
C35_SuccessOnlyIfHealthy ==
  shExit = 0 => shHealth # "fail"


\* ---------------------------------------------------------------------
\* spawnWithTimeout: the script as a child process with a timeout
\* ---------------------------------------------------------------------
\* timeoutMs as handed over by uploadViaSSH / restoreViaSSH
TimeoutInputs == {-1, 0} \cup 1..MaxElapsed

\* the promise executor has run: the child is spawned, and
\* if (timeoutMs > 0) timer = setTimeout(..., timeoutMs)
InitSpawn ==
  /\ SyncIdle
  /\ ShellIdle
  /\ timeoutMs \in TimeoutInputs
  /\ child = "running"
  /\ exitCode = ""
  /\ childError = FALSE
  /\ timer = IF timeoutMs > 0 THEN "armed" ELSE "none"
  /\ promise = "pending"
  /\ sigterm = FALSE
  /\ elapsed = 0

\* resolve() / reject(): only the first call settles the promise
Settle(outcome) == IF promise = "pending" THEN outcome ELSE promise

\* a millisecond passes; a timer that is due runs before more time passes
Tick ==
  /\ elapsed < MaxElapsed
  /\ timer = "armed" => elapsed < timeoutMs
  /\ elapsed' = elapsed + 1
  /\ UNCHANGED <<syncVars, shVars, timeoutMs, child, exitCode, childError, timer,
                 promise, sigterm>>

\* the setTimeout callback: child.kill("SIGTERM"); reject(timed out)
TimerFires ==
  /\ timer = "armed"
  /\ elapsed >= timeoutMs
  /\ timer' = "fired"
  /\ sigterm' = TRUE
  /\ promise' = Settle("timeout")
  /\ UNCHANGED <<syncVars, shVars, timeoutMs, child, exitCode, childError, elapsed>>

\* variant: the exit handler leaves the timer running
ChildExits_KeepsTimer ==
  /\ child = "running"
  /\ \E code \in {"0", "1"} \cup (IF sigterm THEN {"null"} ELSE {}) :
       /\ exitCode' = code
       /\ promise' = Settle(IF code = "0" THEN "resolved" ELSE "exit")
  /\ child' = "exited"
  /\ UNCHANGED <<syncVars, shVars, timeoutMs, childError, timer, sigterm, elapsed>>

\* child.on("exit", code => { if (timer) clearTimeout(timer);
\*   if (code === 0) return resolve(); return reject(...) })
ChildExits ==
  /\ child = "running"
  /\ \E code \in {"0", "1"} \cup (IF sigterm THEN {"null"} ELSE {}) :
       /\ exitCode' = code
       /\ promise' = Settle(IF code = "0" THEN "resolved" ELSE "exit")
  /\ child' = "exited"
  /\ timer' = IF timer = "armed" THEN "cleared" ELSE timer
  /\ UNCHANGED <<syncVars, shVars, timeoutMs, childError, sigterm, elapsed>>

\* child.on("error", err => { if (timer) clearTimeout(timer); reject(err) })
ChildErrors ==
  /\ child = "running"
  /\ ~childError
  /\ childError' = TRUE
  /\ timer' = IF timer = "armed" THEN "cleared" ELSE timer
  /\ promise' = Settle("error")
  /\ UNCHANGED <<syncVars, shVars, timeoutMs, child, exitCode, sigterm, elapsed>>

NextSpawn ==
  \/ Tick
  \/ TimerFires
  \/ ChildExits
  \/ ChildErrors

SpecSpawn == InitSpawn /\ [][NextSpawn]_vars


\* C36: with timeoutMs > 0 a script still running when timeoutMs have
\* passed is sent SIGTERM and the promise is rejected with the timeout
\* error; a settled promise never changes; an exit or error that comes
\* first clears the timer, which then never fires; with timeoutMs <= 0 no
\* timer exists and no timeout is ever reported.
C36_TimeoutSettlesOnce ==
  /\ [](/\ timer = "armed" => (elapsed <= timeoutMs /\ promise = "pending" /\ child = "running")
        /\ (timeoutMs > 0 /\ promise = "pending") => timer = "armed"
        /\ timer = "fired" => (sigterm /\ promise = "timeout" /\ elapsed >= timeoutMs)
        /\ sigterm => timer = "fired"
        /\ promise = "timeout" => timer = "fired"
        /\ (child = "exited" /\ promise # "timeout") => timer \in {"none", "cleared"}
        /\ (childError /\ promise = "error") => timer \in {"none", "cleared"}
        /\ timeoutMs <= 0 => (timer = "none" /\ ~sigterm /\ promise # "timeout")
        /\ promise = "resolved" => exitCode = "0")
  /\ [][promise # "pending" => promise' = promise]_vars

\* the timeout has fired on a running script, which then exited with code 0:
\* the promise stays rejected with the timeout error
C36_Witness ==
  /\ timeoutMs > 0
  /\ timer = "fired" /\ sigterm
  /\ child = "exited" /\ exitCode = "0"
  /\ promise = "timeout"


\* ---------------------------------------------------------------------
\* The worker pool: resolution and termination
\* ---------------------------------------------------------------------
\* every upload in flight eventually completes or fails
SpecPoolFair == SpecPool /\ WF_vars(UploadDone \/ UploadFails)

\* the promise of the current uploadMany call is being awaited
PoolAwaited == pc \in {"awaitA", "awaitB"}

\* what the pool's promise being resolved stands for
PoolResolvedRight ==
  (PoolAwaited /\ settled = "resolved") =>
    /\ idx = Len(relFiles) /\ active = {}
    /\ idxAtReject = -1
    /\ ~dryRun => \A i \in 1..Len(relFiles) : CountCalls(run, "put", relFiles[i]) = 1
    /\ dryRun => \A i \in 1..Len(relFiles) : CountCalls(run, "announce_up", relFiles[i]) = 1

\* C37: the pool resolves only when every file has been dispatched once,
\* every upload has succeeded and none is in flight; a pending pool whose
\* uploads all end does settle; and a call with an empty list is resolved
\* at once without a remote call.
C37_PoolResolvesWhenAllDone ==
  /\ [](/\ PoolResolvedRight
        /\ idx <= Len(relFiles)
        /\ active \subseteq {relFiles[i] : i \in 1..idx}
        /\ Cardinality(active) <= limit
        /\ (PoolAwaited /\ relFiles = <<>>) =>
             (settled = "resolved" /\ active = {} /\ At(UploadOps, {phase}) = {}))
  /\ ((PoolAwaited /\ settled = "pending") ~> (settled # "pending"))

\* a live pool of three files with two workers has resolved
C37_Witness ==
  /\ PoolAwaited /\ ~dryRun
  /\ settled = "resolved"
  /\ Len(relFiles) = 3 /\ limit = 2
  /\ CountOf(run, "put", phase) = 3


\* ---------------------------------------------------------------------
\* The webroot path in backup and rollback
\* ---------------------------------------------------------------------
\* C38: whatever the last component of the configured webroot path, the
\* archive of a shell deploy holds the content of the configured webroot as
\* it was before the run, and a rollback that restored leaves exactly the
\* archived content at the configured webroot path.
C38_BackupAndRollbackUseWebroot ==
  /\ shBackupMade => shArchive = TreeOf(shCfg.dirs0, shCfg.rootName)
  /\ shRollback = "restored" =>
       /\ shCfg.rootName \in DOMAIN shDirs
       /\ shDirs[shCfg.rootName] = shArchive

====
